---- MODULE Spec2Model ----
(***************************************************************************)
(* A model of rogerlinh/social-poster: the Runner worker and its event     *)
(* queue (social_poster.py), the App's run control, the Medium publish     *)
(* flow (medium_selenium.py), the batch scheduler and the schedule table   *)
(* (schedule_reader.py).                                                   *)
(* Each part has its own specification over the shared variables; the      *)
(* variables of the other parts stay at their initial value.               *)
(***************************************************************************)
EXTENDS Integers, Sequences, FiniteSets, TLC

VARIABLES
    runners,      \* every Runner object created so far: config, position, queue, events put
    is_running,   \* App.is_running
    stop_evt,     \* App.stop_evt (threading.Event)
    app_runner,   \* App.runner: index into runners, 0 for None
    gui,          \* the Tk main thread: "idle", or "joining" while stop_run waits in join
    last_start,   \* how the latest App.start_run call ended
    inline_events,\* run_job_inline: the event list each completed call returned
    p_pc,         \* medium_publish_article_selenium: the statement it is at
    p_retries,    \* its retries argument
    p_publish_now,\* its publish_now argument
    p_attempts,   \* how many times the publish flow has been started in this call
    p_result,     \* "none" while it runs, then "returned" or "raised"
    p_url,        \* the value it returned
    p_polls,      \* _await_publish_url: polls of the wait that found nothing yet
    b_cur,        \* the browser: driver.current_url / document.location.href
    b_share,      \* the browser: the share link shown after publishing, NoUrl if none
    b_overlay,    \* the browser: the publish-quota overlay is shown
    p_body,       \* fill_title_and_body: "typed" or "failed" once the body was attempted
    p_ready,      \* what _wait_publish_ready returned: "ready" or "timeout"
    p_opened,     \* open_publish_and_fill clicked the Publish button of the editor
    p_confirms,   \* clicks issued on the confirm button of the publish dialog
    p_quota,      \* what _detect_publish_quota_block returned: "detected" or "clear"
    p_success,    \* _run_medium put the success event 'Medium URL: ...'
    p_written,    \* _run_single_job called write_link_to_schedule for the job
    now,          \* the wall clock (datetime.now(), time.time())
    m_pc,         \* schedule_reader.main: the statement it is at
    m_jobs,       \* the jobs build_jobs returned, in schedule order
    m_limit,      \* main's limit after max(1, limit or DEFAULT_LIMIT)
    m_immediate,  \* _group_jobs_by_time: the immediate jobs (indices into m_jobs)
    m_scheduled,  \* _group_jobs_by_time: the scheduled jobs (indices into m_jobs)
    m_reg,        \* main: the sorted targets still to be registered with the scheduler
    s_queue,      \* sched.scheduler: the events entered and not yet run
    s_seq,        \* sched.scheduler: the next sequence number
    d_pc,         \* _dispatch_time_slot: the statement it is at
    d_label,      \* its slot: the target time, NoTime for the immediate slot
    d_jobs,       \* its jobs (indices into m_jobs)
    d_groups,     \* grouped: the groups in insertion order
    d_gi,         \* the group the for loop is at
    d_processes,  \* the processes list (indices into workers)
    d_join,       \* the position of the join loop in processes
    workers,      \* every profile worker process started so far
    d_log,        \* the slots dispatched so far: label and clock value at the call
    t_header,     \* the schedule table (CSV): how its header row names the link column
    t_rows,       \* the lines of the table below the header row
    l_pc,         \* schedule_reader.main over the table: "idle" between runs, else "running"
    l_run,        \* how many runs of main have begun
    l_jobs,       \* the jobs build_jobs returned in the run under way
    l_next,       \* the next job of l_jobs to be run
    l_dispatched, \* every job run so far: the run and the line the job was read from
    l_written,    \* every write_link_to_schedule so far: the run, the line written, the job's line
    ld_pc,        \* _load_medium_page: "idle", "get", "check" or "done"
    ld_attempts,  \* its attempts argument
    ld_attempt,   \* the loop variable attempt
    ld_log,       \* how each driver.get so far ended
    ld_result,    \* "none" while it runs, then "returned" or "raised"
    san_pc,       \* _sanitize_medium_html: "idle" before the call, "done" after it
    san_in,       \* raw_html, as the markup tokens it holds
    san_out,      \* the returned html, as markup tokens
    g_pc,         \* the GPM test script: "step1", "create", "step2", "launch", "summary", "exit"
    g_create_arg, \* how find_or_create_profile is called: "default", "True" or "False"
    g_lookup,     \* what find_profile_by_name meets: "found", "missing" or "error"
    g_created,    \* create_profile: "none" when not called, else "ok" or "failed"
    g_profile,    \* what find_or_create_profile returned: "existing", "new" or "None"
    g_retry_attempts, \* start_profile: its retry_attempts argument
    g_dirs,       \* which sources give a user_data_dir: the argument, the API info, config
    g_dir,        \* resolved_user_data_dir: the source it was taken from, "none" if empty
    g_log,        \* how each open_chrome_with_selenium call so far ended
    g_driver,     \* what start_profile returned: "driver" or "None"
    c_limit,      \* the slot's limit, for the workers that write to one CSV schedule
    c_rows,       \* the CSV schedule: the link cell of each job's row, 0 when empty
    c_w,          \* the slot's workers: position, publish_url (0 for None), rows read
    cf_pc,        \* _run_single_job around to_runner_config: "idle", "built", "inline", "raised"
    cf_job,       \* the ScheduleJob
    cf_result,    \* what to_runner_config returned or raised
    ft_pc,        \* fill_title_and_body: "idle", "title", "body", "acquire", "copy", "paste",
                  \* "body_done", "returned", "raised"
    ft_log,       \* the outcome of every title attempt made, in order
    ft_last_exc,  \* last_exc: TRUE once a StaleElementReferenceException was kept
    ft_raised,    \* the exception fill_title_and_body raised, "none" if none
    tb_text_blob, \* _type_body_plain: the text blob, "" when empty
    tb_rich_html, \* the rich HTML payload, "" for None or empty
    tb_copied,    \* what _clipboard_copy_content put on the clipboard: "none", "rich", "text"
    tb_copy_ok,   \* whether it was called, and what the HTML copy and the text copy give
    tb_pasted,    \* the paste key sequence was sent to the body element
    tb_result,    \* what _type_body_plain returned: "none", "True", "False"
    rn_pc,        \* render_medium_body_text: "idle", "called", "returned"
    rn_in,        \* its body argument
    rn_out        \* the blob returned

runVars == <<runners, is_running, stop_evt, app_runner, gui, last_start, inline_events>>

\* The arguments and result of medium_publish_article_selenium, what its steps
\* did, what its callers did with the result, and the browser.
pubCall == <<p_retries, p_publish_now, p_attempts>>
pubOut == <<p_result, p_url>>
pubSteps == <<p_body, p_ready, p_opened, p_confirms, p_quota>>
pubCaller == <<p_success, p_written>>
browser == <<b_cur, b_share, b_overlay>>

pubVars == <<p_pc, pubCall, pubOut, p_polls, pubSteps, pubCaller, browser>>

mainVars == <<m_pc, m_jobs, m_limit, m_immediate, m_scheduled, m_reg, s_queue, s_seq>>

slotVars == <<d_pc, d_label, d_jobs, d_groups, d_gi, d_processes, d_join, d_log>>

schedVars == <<now, mainVars, slotVars, workers>>

linkVars == <<t_header, t_rows, l_pc, l_run, l_jobs, l_next, l_dispatched, l_written>>

loadVars == <<ld_pc, ld_attempts, ld_attempt, ld_log, ld_result>>

\* The variables of the parts that model single functions.
sanVars == <<san_pc, san_in, san_out>>

gpmVars == <<g_pc, g_create_arg, g_lookup, g_created, g_profile, g_retry_attempts, g_dirs,
             g_dir, g_log, g_driver>>

csvVars == <<c_limit, c_rows, c_w>>

cfgVars == <<cf_pc, cf_job, cf_result>>

fillVars == <<ft_pc, ft_log, ft_last_exc, ft_raised, tb_text_blob, tb_rich_html, tb_copied,
              tb_copy_ok, tb_pasted, tb_result>>
renVars == <<rn_pc, rn_in, rn_out>>
txtVars == <<fillVars, renVars>>

funVars == <<loadVars, sanVars, gpmVars, csvVars, cfgVars, txtVars>>

vars == <<runVars, pubVars, schedVars, linkVars, funVars>>

\* The variables outside each part.
notRunVars == <<pubVars, schedVars, linkVars, funVars>>
notPubVars == <<runVars, schedVars, linkVars, funVars>>
notSchedVars == <<runVars, pubVars, linkVars, funVars>>
notLinkVars == <<runVars, pubVars, schedVars, funVars>>
notFunVars == <<runVars, pubVars, schedVars, linkVars>>
notLoadVars == <<notFunVars, sanVars, gpmVars, csvVars, cfgVars, txtVars>>
notSanVars == <<notFunVars, loadVars, gpmVars, csvVars, cfgVars, txtVars>>
notGpmVars == <<notFunVars, loadVars, sanVars, csvVars, cfgVars, txtVars>>
notCsvVars == <<notFunVars, loadVars, sanVars, gpmVars, cfgVars, txtVars>>
notCfgVars == <<notFunVars, loadVars, sanVars, gpmVars, csvVars, txtVars>>
notFillVars == <<notFunVars, loadVars, sanVars, gpmVars, csvVars, cfgVars, renVars>>
notRenVars == <<notFunVars, loadVars, sanVars, gpmVars, csvVars, cfgVars, fillVars>>

appVars == <<is_running, stop_evt, app_runner, gui, last_start>>

----------------------------------------------------------------------------
(* Bounds *)

MaxRunners == 2      \* Runner objects created in one behaviour
MaxPolls == 2        \* polls of one WebDriverWait that the model follows
MaxJobs == 3         \* jobs of the slot, where one slot is followed
MaxTimedJobs == 2    \* jobs in the schedule, where the clock is followed
MaxLimit == 2        \* the largest limit argument
MaxRows == 3         \* lines of the schedule table below its header
MaxRuns == 2         \* runs of main over the same table
MaxAttempts == 4     \* the largest attempts argument of _load_medium_page
MaxTokens == 2       \* markup tokens in the input of _sanitize_medium_html
MaxRetryAttempts == 3 \* the largest retry_attempts argument of start_profile
MaxLines == 2        \* lines handed to _collapse_medium_lines
MaxLineLen == 2      \* characters of one line
MaxWriters == 3      \* workers of one slot writing to the same CSV schedule
MaxTime == 4         \* the clock stops here

----------------------------------------------------------------------------
(* Program constants (config.py) *)

MEDIUM_SELENIUM_RETRIES == 1
TITLE_ATTEMPTS == 3
SCHEDULE_CONCURRENCY == 1

----------------------------------------------------------------------------
(* Runner and run_job_inline (social_poster.py) *)

\* The platform strings a RunnerConfig can carry: the two values of the GUI's
\* segmented button, and what to_runner_config passes through for other rows.
Platforms == {"Medium", "LinkedIn", "medium", "Other"}

\* RunnerConfig: platform and whether .medium is a MediumJobConfig (TRUE) or None.
RunnerConfigs == [platform : Platforms, medium : BOOLEAN]

\* The methods class Runner defines (its base class threading.Thread defines
\* none of the names used below).
RunnerMethods == {"__init__", "_put", "log", "warn", "error", "_ensure_console", "run"}

\* The methods class AutoPostPanel defines; _run_medium is one of them.
AutoPostPanelMethods ==
    {"__init__", "_build_ui", "_choose_file", "_start_schedule", "_run_schedule",
     "_finish_schedule", "_run_medium", "_handle_manual_login"}

\* self.<name> on a Runner instance resolves iff class Runner defines name.
RunnerHasAttr(name) == name \in RunnerMethods

EvFinishedDone == <<"finished", "Done">>
EvFinishedAborted == <<"finished", "Aborted">>
EvWarnLinkedIn == <<"warn", "LinkedIn automation has not been reconstructed yet.">>
EvWarnUnsupported == <<"warn", "Unsupported platform">>
EvSuccessUrl == <<"success", "Medium URL: url">>
EvFailure(exc) == <<"error", exc>>

\* The exception texts Runner.run can catch.
ExcMissingConfig == "Failure: Missing Medium configuration"
ExcNoRunMedium == "Failure: 'Runner' object has no attribute '_run_medium'"
ExcWorkflow == "Failure: workflow"

\* Runner.__init__: a fresh Runner; thread is TRUE when it is started as a
\* thread (App.start_run) and FALSE when run() is called inline.
NewRunner(cfg, asThread) ==
    [cfg |-> cfg, thread |-> asThread, pc |-> "run", queue |-> <<>>, emitted |-> <<>>,
     exc |-> "", outcome |-> "", workflow |-> FALSE, launched |-> FALSE, url |-> FALSE]

\* Runner._put: out_queue.put((level, message)).
Put(rec, ev) == [rec EXCEPT !.queue = Append(@, ev), !.emitted = Append(@, ev)]

\* AutoPostPanel._run_medium, were it to run on a Runner: it launches Chrome,
\* runs the publish workflow and puts 'success' when the workflow returned a URL;
\* raised says the workflow raised, gotUrl that it returned a URL.
RunMedium(rec, raised, gotUrl) ==
    LET started == [rec EXCEPT !.launched = TRUE, !.workflow = TRUE] IN
    IF raised THEN [started EXCEPT !.pc = "except", !.exc = ExcWorkflow]
    ELSE IF gotUrl THEN [Put(started, EvSuccessUrl) EXCEPT !.pc = "put_done", !.url = TRUE]
    ELSE [started EXCEPT !.pc = "put_done"]

\* RunBody with the LinkedIn branch running the Medium workflow as well.
RunBodyLinkedInPublishes(rec, raised, gotUrl) ==
    IF rec.cfg.platform = "Medium" THEN
        IF ~rec.cfg.medium THEN [rec EXCEPT !.pc = "except", !.exc = ExcMissingConfig]
        ELSE [rec EXCEPT !.pc = "except", !.exc = ExcNoRunMedium]
    ELSE IF rec.cfg.platform = "LinkedIn"
         THEN RunMedium(rec, raised, gotUrl)
         ELSE [Put(rec, EvWarnUnsupported) EXCEPT !.pc = "put_done"]

\* The body of the try block of Runner.run up to the last statement.
RunBody(rec, raised, gotUrl) ==
    IF rec.cfg.platform = "Medium" THEN
        IF ~rec.cfg.medium THEN [rec EXCEPT !.pc = "except", !.exc = ExcMissingConfig]
        ELSE IF ~RunnerHasAttr("_run_medium")
             THEN [rec EXCEPT !.pc = "except", !.exc = ExcNoRunMedium]
             ELSE RunMedium(rec, raised, gotUrl)
    ELSE IF rec.cfg.platform = "LinkedIn"
         THEN [Put(rec, EvWarnLinkedIn) EXCEPT !.pc = "put_done"]
         ELSE [Put(rec, EvWarnUnsupported) EXCEPT !.pc = "put_done"]

\* Runner.run, the try block: the branch on the platform.
RunnerRun(r) ==
    /\ r \in 1..Len(runners)
    /\ runners[r].pc = "run"
    /\ \E raised \in BOOLEAN, gotUrl \in BOOLEAN :
           runners' = [runners EXCEPT ![r] = RunBody(@, raised, gotUrl)]
    /\ UNCHANGED <<appVars, inline_events, notRunVars>>

\* Runner.run: self._put("finished", "Done"), then run returns.
PutDone(rec) == [Put(rec, EvFinishedDone) EXCEPT !.pc = "returned", !.outcome = "returned"]

RunnerPutDone(r) ==
    /\ r \in 1..Len(runners)
    /\ runners[r].pc = "put_done"
    /\ runners' = [runners EXCEPT ![r] = PutDone(@)]
    /\ UNCHANGED <<appVars, inline_events, notRunVars>>

\* Runner.run, except branch: input("press Enter to continue... ") returns when
\* the operator presses Enter. Until then the thread stays here.
RunnerInputReturns(r) ==
    /\ r \in 1..Len(runners)
    /\ runners[r].pc = "except"
    /\ runners' = [runners EXCEPT ![r].pc = "put_error"]
    /\ UNCHANGED <<appVars, inline_events, notRunVars>>

\* input() raises (EOFError on a closed stdin, RuntimeError without one): the
\* exception leaves run() from inside the handler.
RunnerInputRaises(r) ==
    /\ r \in 1..Len(runners)
    /\ runners[r].pc = "except"
    /\ runners' = [runners EXCEPT ![r].pc = "raised", ![r].outcome = "raised"]
    /\ UNCHANGED <<appVars, inline_events, notRunVars>>

\* Runner.run, except branch: self.error(f"Failure: {exc}").
PutError(rec) == [Put(rec, EvFailure(rec.exc)) EXCEPT !.pc = "put_aborted"]

RunnerPutError(r) ==
    /\ r \in 1..Len(runners)
    /\ runners[r].pc = "put_error"
    /\ runners' = [runners EXCEPT ![r] = PutError(@)]
    /\ UNCHANGED <<appVars, inline_events, notRunVars>>

\* PutAborted without the put: run returns after the error event.
PutAbortedNothing(rec) == [rec EXCEPT !.pc = "returned", !.outcome = "returned"]

\* Runner.run, except branch: self._put("finished", "Aborted"), then run returns.
PutAborted(rec) ==
    [Put(rec, EvFinishedAborted) EXCEPT !.pc = "returned", !.outcome = "returned"]

RunnerPutAborted(r) ==
    /\ r \in 1..Len(runners)
    /\ runners[r].pc = "put_aborted"
    /\ runners' = [runners EXCEPT ![r] = PutAborted(@)]
    /\ UNCHANGED <<appVars, inline_events, notRunVars>>

\* A started thread is alive until run() has ended and the thread has exited.
IsAlive(r) == runners[r].thread /\ runners[r].pc # "dead"

\* threading.Thread: after run() returned or raised, the thread exits.
ThreadExit(r) ==
    /\ r \in 1..Len(runners)
    /\ runners[r].thread
    /\ runners[r].pc \in {"returned", "raised"}
    /\ runners' = [runners EXCEPT ![r].pc = "dead"]
    /\ UNCHANGED <<appVars, inline_events, notRunVars>>

RunnerStep(r) ==
    \/ RunnerRun(r)
    \/ RunnerPutDone(r)
    \/ RunnerInputReturns(r)
    \/ RunnerInputRaises(r)
    \/ RunnerPutError(r)
    \/ RunnerPutAborted(r)

\* run_job_inline: builds a Runner and calls runner.run() in the caller's thread.
InlineBusy == \E r \in 1..Len(runners) : runners[r].pc \notin {"drained", "raised"}

RunJobInline(cfg) ==
    /\ Len(runners) < MaxRunners
    /\ ~InlineBusy
    /\ \A r \in 1..Len(runners) : runners[r].pc # "raised"
    /\ runners' = Append(runners, NewRunner(cfg, FALSE))
    /\ UNCHANGED <<appVars, inline_events, notRunVars>>

\* run_job_inline after runner.run() returned: drain log_q into the list returned.
InlineDrain(r) ==
    /\ r \in 1..Len(runners)
    /\ ~runners[r].thread
    /\ runners[r].pc = "returned"
    /\ inline_events' = Append(inline_events, runners[r].queue)
    /\ runners' = [runners EXCEPT ![r].pc = "drained", ![r].queue = <<>>]
    /\ UNCHANGED <<appVars, notRunVars>>

----------------------------------------------------------------------------
(* App run control (social_poster.py) *)

\* The two values of the platform switch of the GUI.
GuiPlatforms == {"Medium", "LinkedIn"}

\* App._build_runner_config: ValueError when a Medium field is empty,
\* otherwise the RunnerConfig of the platform.
BuildRunnerConfig(platform, fieldsOk) ==
    IF platform = "Medium"
    THEN IF fieldsOk THEN [ok |-> TRUE, cfg |-> [platform |-> "Medium", medium |-> TRUE]]
         ELSE [ok |-> FALSE, cfg |-> [platform |-> "Medium", medium |-> FALSE]]
    ELSE [ok |-> TRUE, cfg |-> [platform |-> platform, medium |-> FALSE]]

\* App.start_run may start a Runner when this holds.
StartGuard == ~is_running

\* App.start_run (the Publish button).
StartRun(platform, fieldsOk) ==
    /\ gui = "idle"
    /\ IF ~StartGuard
       THEN /\ last_start' = "busy"
            /\ UNCHANGED <<runners, is_running, stop_evt, app_runner>>
       ELSE LET built == BuildRunnerConfig(platform, fieldsOk) IN
            IF ~built.ok
            THEN /\ last_start' = "config_error"
                 /\ UNCHANGED <<runners, is_running, stop_evt, app_runner>>
            ELSE /\ Len(runners) < MaxRunners
                 /\ stop_evt' = FALSE
                 /\ runners' = Append(runners, NewRunner(built.cfg, TRUE))
                 /\ app_runner' = Len(runners) + 1
                 /\ is_running' = TRUE
                 /\ last_start' = "started"
    /\ UNCHANGED <<gui, inline_events, notRunVars>>

\* App.stop_run (the Cancel button) up to runner.join(timeout=5).
StopRun ==
    /\ gui = "idle"
    /\ IF ~is_running
       THEN UNCHANGED <<is_running, stop_evt, gui>>
       ELSE /\ stop_evt' = TRUE
            /\ IF app_runner # 0 /\ IsAlive(app_runner)
               THEN gui' = "joining" /\ UNCHANGED is_running
               ELSE is_running' = FALSE /\ UNCHANGED gui
    /\ UNCHANGED <<runners, app_runner, last_start, inline_events, notRunVars>>

\* App.stop_run: join returned because the runner thread has ended.
StopRunJoined ==
    /\ gui = "joining"
    /\ ~IsAlive(app_runner)
    /\ is_running' = FALSE
    /\ gui' = "idle"
    /\ UNCHANGED <<runners, stop_evt, app_runner, last_start, inline_events, notRunVars>>

\* App.stop_run: join(timeout=5) timed out with the runner thread still alive;
\* stop_run goes on all the same.
StopRunJoinTimeout ==
    /\ gui = "joining"
    /\ IsAlive(app_runner)
    /\ is_running' = FALSE
    /\ gui' = "idle"
    /\ UNCHANGED <<runners, stop_evt, app_runner, last_start, inline_events, notRunVars>>

\* Whether a 'finished' event is among the events drained.
HasFinished(evs) == \E i \in 1..Len(evs) : evs[i][1] = "finished"

\* App._poll_queue: drains self.out_queue; a 'finished' event clears is_running.
PollQueue ==
    /\ gui = "idle"
    /\ app_runner # 0
    /\ runners[app_runner].queue # <<>>
    /\ is_running' = IF HasFinished(runners[app_runner].queue) THEN FALSE ELSE is_running
    /\ runners' = [runners EXCEPT ![app_runner].queue = <<>>]
    /\ UNCHANGED <<stop_evt, app_runner, gui, last_start, inline_events, notRunVars>>

----------------------------------------------------------------------------
(* The Medium publish flow (medium_selenium.py) *)

\* A URL: whether it has a scheme and a host, its path segments, and whether a
\* query or fragment follows. NoUrl stands for None and the empty string.
Url(net, path, query) == [net |-> net, path |-> path, query |-> query]
NoUrl == Url(FALSE, <<>>, FALSE)
UrlBlank == Url(FALSE, <<"blank">>, FALSE)                    \* about:blank
UrlEditor == Url(TRUE, <<"new-story">>, FALSE)                \* https://medium.com/new-story
UrlEditorQuery == Url(TRUE, <<"new-story">>, TRUE)            \* .../new-story?source=...
UrlDraftEdit == Url(TRUE, <<"p", "id", "edit">>, FALSE)       \* https://medium.com/p/<id>/edit
UrlDrafts == Url(TRUE, <<"me", "stories", "drafts">>, FALSE)  \* .../me/stories/drafts
UrlPublished == Url(TRUE, <<"@user", "slug">>, FALSE)         \* https://medium.com/@user/slug
UrlPublishedQuery == Url(TRUE, <<"@user", "slug">>, TRUE)     \* .../@user/slug?source=...

\* The pages the browser can show.
BrowserUrls ==
    {UrlBlank, UrlEditor, UrlEditorQuery, UrlDraftEdit, UrlDrafts, UrlPublished,
     UrlPublishedQuery}

\* The values the share link can have once the story is published.
ShareUrls == {UrlPublished, UrlPublishedQuery}

\* Python truthiness of a URL value: None and "" are false.
Truthy(u) == u # NoUrl

\* 'new-story' in url
HasNewStory(u) == \E i \in 1..Len(u.path) : u.path[i] = "new-story"

\* '/draft' in url
HasDraft(u) == \E i \in 1..Len(u.path) : u.path[i] \in {"draft", "drafts"}

\* _normalize_medium_url: None for an empty value, the value itself when it has
\* no scheme or host; otherwise a trailing /edit, the query and the fragment
\* are dropped.
NormalizeMediumUrl(u) ==
    IF ~Truthy(u) THEN NoUrl
    ELSE IF ~u.net THEN u
    ELSE LET n == Len(u.path)
             path == IF n > 0 /\ u.path[n] = "edit" THEN SubSeq(u.path, 1, n - 1) ELSE u.path
         IN Url(TRUE, path, FALSE)

\* _extract_publish_link: the share link, else the page's own location,
\* normalized; when the script raises, the normalized driver.current_url; None
\* when that raises too.
ExtractPublishLink(cur, share, scriptRaises, curRaises) ==
    IF ~scriptRaises
    THEN NormalizeMediumUrl(IF Truthy(share) THEN share ELSE cur)
    ELSE IF ~curRaises THEN NormalizeMediumUrl(cur) ELSE NoUrl

\* _await_publish_url._condition: a URL when the page has left the editor, or
\* a publish link that is not the editor's; NoUrl stands for False.
AwaitCondition(cur, share, scriptRaises, curRaises) ==
    LET url == IF curRaises THEN NoUrl ELSE cur
        link == ExtractPublishLink(cur, share, scriptRaises, curRaises)
    IN IF Truthy(url) /\ ~HasNewStory(url) /\ ~HasDraft(url)
       THEN NormalizeMediumUrl(url)
       ELSE IF Truthy(link) /\ ~HasNewStory(link) THEN link ELSE NoUrl

\* The except branch of medium_publish_article_selenium: log and raise e.
PublishRaise ==
    /\ p_pc' = "done"
    /\ p_result' = "raised"
    /\ UNCHANGED <<pubCall, p_url, p_polls, pubCaller, notPubVars>>

\* A call of medium_publish_article_selenium begins its try block.
PublishStart ==
    /\ p_pc = "idle"
    /\ p_pc' = "open_editor"
    /\ p_attempts' = p_attempts + 1
    /\ UNCHANGED <<p_retries, p_publish_now, pubOut, p_polls, pubSteps, pubCaller, browser,
                   notPubVars>>

\* open_medium_editor: loads /new-story unless the browser is on it; raises when
\* the load fails or the editor's container or publish button never shows.
OpenEditor ==
    /\ p_pc = "open_editor"
    /\ \/ /\ b_cur' = IF HasNewStory(b_cur) THEN b_cur ELSE UrlEditor
          /\ p_pc' = "fill"
          /\ UNCHANGED <<pubCall, pubOut, p_polls, pubCaller>>
       \/ /\ UNCHANGED b_cur
          /\ PublishRaise
    /\ UNCHANGED <<b_share, b_overlay, pubSteps, notPubVars>>

\* fill_title_and_body: raises when the title could not be typed; a failure to
\* type the body is logged and swallowed.
FillTitleAndBody ==
    /\ p_pc = "fill"
    /\ \/ /\ p_pc' = "wait_ready"
          /\ \E body \in {"typed", "failed"} : p_body' = body
          /\ UNCHANGED <<pubCall, pubOut, p_polls, pubCaller>>
       \/ /\ PublishRaise
          /\ UNCHANGED p_body
    /\ UNCHANGED <<p_ready, p_opened, p_confirms, p_quota, browser, notPubVars>>

\* _wait_publish_ready(driver): True when the button is enabled with a title
\* and a body, False on TimeoutException; the caller does not use the result.
WaitPublishReady ==
    /\ p_pc = "wait_ready"
    /\ \E ready \in {"ready", "timeout"} : p_ready' = ready
    /\ p_pc' = "open_publish"
    /\ UNCHANGED <<pubCall, pubOut, p_polls, p_body, p_opened, p_confirms, p_quota,
                   pubCaller, browser, notPubVars>>

\* open_publish_and_fill: how many confirm clicks _click_publish_once may issue.
ConfirmClicksInDialog(publish_now) == IF publish_now THEN {0, 1, 2} ELSE {0}

\* open_publish_and_fill(driver, tags, publish_now): clicks the editor's Publish
\* button when it finds it and, with publish_now, the confirm button once, and
\* a second time when the dialog stays open; every failure in it is caught.
OpenPublishAndFill ==
    /\ p_pc = "open_publish"
    /\ p_pc' = "confirm"
    /\ \E opened \in BOOLEAN : p_opened' = opened
    /\ \E n \in ConfirmClicksInDialog(p_publish_now) : p_confirms' = p_confirms + n
    /\ UNCHANGED <<pubCall, pubOut, p_polls, p_body, p_ready, p_quota, pubCaller, browser,
                   notPubVars>>

\* click_publish_confirm_button(driver): clicks the confirm button when it finds
\* it; returns True or False, never raises.
ClickPublishConfirm ==
    /\ p_pc = "confirm"
    /\ p_pc' = "quota"
    /\ \E found \in BOOLEAN : p_confirms' = p_confirms + (IF found THEN 1 ELSE 0)
    /\ UNCHANGED <<pubCall, pubOut, p_polls, p_body, p_ready, p_opened, p_quota, pubCaller,
                   browser, notPubVars>>

\* _detect_publish_quota_block: True when an overlay holds the warning text.
DetectPublishQuotaBlock(overlay) == IF overlay THEN "detected" ELSE "clear"

\* QuotaRaises that lets a detected overlay pass.
QuotaRaisesNever(quota) == FALSE

\* medium_publish_article_selenium: if _detect_publish_quota_block(driver): raise.
QuotaRaises(quota) == quota = "detected"

\* The quota check after the confirm click.
DetectQuota ==
    /\ p_pc = "quota"
    /\ p_quota' = DetectPublishQuotaBlock(b_overlay)
    /\ IF QuotaRaises(p_quota')
       THEN PublishRaise
       ELSE /\ p_pc' = "await_url"
            /\ UNCHANGED <<pubCall, pubOut, p_polls, pubCaller>>
    /\ UNCHANGED <<p_body, p_ready, p_opened, p_confirms, browser, notPubVars>>

\* medium_publish_article_selenium returns publish_url.
PublishReturn(url) ==
    /\ p_pc' = "done"
    /\ p_result' = "returned"
    /\ p_url' = url
    /\ UNCHANGED <<pubCall, pubSteps, pubCaller, notPubVars>>

\* _await_publish_url: one poll of WebDriverWait(driver, timeout).until(_condition).
AwaitPoll ==
    /\ p_pc = "await_url"
    /\ \E scriptRaises \in BOOLEAN, curRaises \in BOOLEAN :
          LET found == AwaitCondition(b_cur, b_share, scriptRaises, curRaises) IN
          IF Truthy(found)
          THEN PublishReturn(found) /\ UNCHANGED p_polls
          ELSE /\ p_polls < MaxPolls
               /\ p_polls' = p_polls + 1
               /\ UNCHANGED <<p_pc, pubCall, pubOut, pubSteps, pubCaller, notPubVars>>
    /\ UNCHANGED browser

\* What _await_publish_url returns when the wait ends in TimeoutException.
AwaitTimeoutValue(cur, share, scriptRaises, curRaises) ==
    ExtractPublishLink(cur, share, scriptRaises, curRaises)

\* _await_publish_url: the wait timed out after at least one poll found nothing.
AwaitTimeout ==
    /\ p_pc = "await_url"
    /\ p_polls >= 1
    /\ \E scriptRaises \in BOOLEAN, curRaises \in BOOLEAN :
          PublishReturn(AwaitTimeoutValue(b_cur, b_share, scriptRaises, curRaises))
    /\ UNCHANGED <<p_polls, browser>>

\* _run_medium after the call: an exception propagates; a true publish_url is
\* put as the success event 'Medium URL: <url>'.
RunMediumAfterPublish ==
    /\ p_pc = "done"
    /\ p_pc' = "events"
    /\ p_success' = (p_result = "returned" /\ Truthy(p_url))
    /\ UNCHANGED <<pubCall, pubOut, p_polls, pubSteps, p_written, browser, notPubVars>>

\* _run_single_job over the events: publish_url is taken from a success event
\* holding "Medium URL:", and only then write_link_to_schedule is called.
RunSingleJobWriteLink ==
    /\ p_pc = "events"
    /\ p_pc' = "end"
    /\ p_written' = p_success
    /\ UNCHANGED <<pubCall, pubOut, p_polls, pubSteps, p_success, browser, notPubVars>>

\* The page navigates (the draft is saved under /p/<id>/edit, the story is
\* published, the user moves on) while the flow runs.
BrowserNavigates ==
    /\ p_pc \notin {"idle", "open_editor", "done", "events", "end"}
    /\ \E u \in BrowserUrls \ {b_cur} : b_cur' = u
    /\ UNCHANGED <<p_pc, pubCall, pubOut, p_polls, pubSteps, pubCaller, b_share, b_overlay,
                   notPubVars>>

\* After the confirm click the page shows the share link of the published story.
BrowserShowsShareLink ==
    /\ p_pc \in {"quota", "await_url"}
    /\ b_share = NoUrl
    /\ \E u \in ShareUrls : b_share' = u
    /\ UNCHANGED <<p_pc, pubCall, pubOut, p_polls, pubSteps, pubCaller, b_cur, b_overlay,
                   notPubVars>>

\* After a confirm click Medium answers with the publish-quota overlay.
BrowserShowsQuotaOverlay ==
    /\ p_pc \in {"confirm", "quota", "await_url"}
    /\ p_confirms >= 1
    /\ ~b_overlay
    /\ b_overlay' = TRUE
    /\ UNCHANGED <<p_pc, pubCall, pubOut, p_polls, pubSteps, pubCaller, b_cur, b_share,
                   notPubVars>>

----------------------------------------------------------------------------
(* The batch scheduler (schedule_reader.py) *)

\* A job without a parsable schedule_time.
NoTime == -1

\* The clock value at which main starts.
StartTime == 1

\* The schedule times of the rows: none, one not after the start, two after it.
Targets == {NoTime, 1, 2, 3}

\* The profile column of a row, after _normalize_field: empty, a relative
\* name, an absolute path outside the profiles root, or an absolute path under
\* the profiles root (here written in another letter case than the root).
ProfileValue(kind, name) == [kind |-> kind, name |-> name]
ProfEmpty == ProfileValue("empty", "")
ProfRelA == ProfileValue("rel", "a")
ProfRelB == ProfileValue("rel", "b")
ProfAbsOutA == ProfileValue("abs_out", "a")
ProfAbsInUpperA == ProfileValue("abs_in", "A")

ProfileValues == {ProfEmpty, ProfRelA, ProfRelB, ProfAbsOutA, ProfAbsInUpperA}

\* The profile values of the runs that follow the clock.
TimedProfileValues == {ProfRelA, ProfRelB}

\* str.lower() on the directory and name parts used here.
Lower(str) ==
    CASE str = "A" -> "a"
      [] str = "B" -> "b"
      [] str = "D:\\TOOL\\social-poster\\profiles" -> "d:\\tool\\social-poster\\profiles"
      [] str = "D:\\TOOL\\Autopost social\\profile medium" ->
             "d:\\tool\\autopost social\\profile medium"
      [] OTHER -> str

CHROME_USER_DATA_DIR == "D:\\TOOL\\Autopost social\\profile medium"
ProfilesRoot == "D:\\TOOL\\social-poster\\profiles"

\* A path: its directory and the last component under it ("" for the directory itself).
PathOf(dir, name) == [dir |-> dir, name |-> name]

\* ScheduleJob.resolve_profile_path.
ResolveProfilePath(pv) ==
    CASE pv.kind = "empty" -> PathOf(CHROME_USER_DATA_DIR, "")
      [] pv.kind = "rel" -> PathOf(ProfilesRoot, pv.name)
      [] pv.kind = "abs_out" -> PathOf(ProfilesRoot, pv.name)
      [] pv.kind = "abs_in" -> PathOf(Lower(ProfilesRoot), pv.name)

\* resolved.strip().lower()
LowerPath(path) == PathOf(Lower(path.dir), Lower(path.name))

\* GroupKey without .lower().
GroupKeyCaseSensitive(pv) == ResolveProfilePath(pv)

\* _group_jobs_by_profile: the dictionary key of a job.
GroupKey(pv) == LowerPath(ResolveProfilePath(pv))

\* grouped[key].append(job) on the groups kept in insertion order.
AddToGroups(groups, key, j) ==
    IF \E g \in 1..Len(groups) : groups[g].key = key
    THEN [g \in 1..Len(groups) |->
             IF groups[g].key = key
             THEN [groups[g] EXCEPT !.jobs = Append(@, j)]
             ELSE groups[g]]
    ELSE Append(groups, [key |-> key, jobs |-> <<j>>])

RECURSIVE GroupFrom(_, _, _)
GroupFrom(jobs, idxs, groups) ==
    IF idxs = <<>> THEN groups
    ELSE GroupFrom(jobs, Tail(idxs),
                   AddToGroups(groups, GroupKey(jobs[Head(idxs)].profile), Head(idxs)))

\* _group_jobs_by_profile(jobs) for the jobs with the indices idxs.
GroupJobsByProfile(jobs, idxs) == GroupFrom(jobs, idxs, <<>>)

\* [p for p in processes if p.is_alive()]
AliveOf(procs) == SelectSeq(procs, LAMBDA w : workers[w].state = "alive")

\* CanStart with <= for <.
CanStartOneMore(aliveCount, limit) == aliveCount <= limit

\* _dispatch_time_slot: the test that lets the next worker start.
CanStart(aliveCount, limit) == aliveCount < limit

\* _dispatch_time_slot begins: grouped = _group_jobs_by_profile(jobs).
DispatchStart ==
    /\ d_pc = "start"
    /\ d_groups' = GroupJobsByProfile(m_jobs, d_jobs)
    /\ d_gi' = 1
    /\ d_processes' = <<>>
    /\ d_pc' = "loop"
    /\ d_log' = Append(d_log, [label |-> d_label, at |-> now])
    /\ UNCHANGED <<d_label, d_jobs, d_join, now, mainVars, workers, notSchedVars>>

\* The for loop, a pass of `while True` that finds a free place: processes = alive,
\* the worker of the group is started and appended.
DispatchStartWorker ==
    /\ d_pc = "loop"
    /\ d_gi <= Len(d_groups)
    /\ LET alive == AliveOf(d_processes) IN
       /\ CanStart(Len(alive), m_limit)
       /\ workers' = Append(workers,
              [key |-> d_groups[d_gi].key, jobs |-> d_groups[d_gi].jobs, ran |-> <<>>,
               state |-> "alive", slot |-> Len(d_log)])
       /\ d_processes' = Append(alive, Len(workers) + 1)
    /\ d_gi' = d_gi + 1
    /\ UNCHANGED <<d_pc, d_label, d_jobs, d_groups, d_join, d_log, now, mainVars,
                   notSchedVars>>

\* The for loop, a pass of `while True` that finds no free place: sleep(5),
\* processes = alive.
DispatchWait ==
    /\ d_pc = "loop"
    /\ d_gi <= Len(d_groups)
    /\ LET alive == AliveOf(d_processes) IN
       /\ ~CanStart(Len(alive), m_limit)
       /\ d_processes' = alive
    /\ UNCHANGED <<d_pc, d_label, d_jobs, d_groups, d_gi, d_join, d_log, now, mainVars,
                   workers, notSchedVars>>

\* The for loop is over: the join loop begins.
DispatchBeginJoin ==
    /\ d_pc = "loop"
    /\ d_gi > Len(d_groups)
    /\ d_pc' = "join"
    /\ d_join' = 1
    /\ UNCHANGED <<d_label, d_jobs, d_groups, d_gi, d_processes, d_log, now, mainVars,
                   workers, notSchedVars>>

\* DispatchJoin that does not wait for the process to end.
DispatchJoinNoWait ==
    /\ d_pc = "join"
    /\ d_join <= Len(d_processes)
    /\ d_join' = d_join + 1
    /\ UNCHANGED <<d_pc, d_label, d_jobs, d_groups, d_gi, d_processes, d_log, now, mainVars,
                   workers, notSchedVars>>

\* proc.join() returns once the process has ended.
DispatchJoin ==
    /\ d_pc = "join"
    /\ d_join <= Len(d_processes)
    /\ workers[d_processes[d_join]].state = "dead"
    /\ d_join' = d_join + 1
    /\ UNCHANGED <<d_pc, d_label, d_jobs, d_groups, d_gi, d_processes, d_log, now, mainVars,
                   workers, notSchedVars>>

\* _dispatch_time_slot returns.
DispatchReturn ==
    /\ d_pc = "join"
    /\ d_join > Len(d_processes)
    /\ d_pc' = "returned"
    /\ UNCHANGED <<d_label, d_jobs, d_groups, d_gi, d_processes, d_join, d_log, now,
                   mainVars, workers, notSchedVars>>

\* The job a worker runs next: the jobs of its group in list order.
NextJobOf(w) == workers[w].jobs[Len(workers[w].ran) + 1]

\* _profile_worker: the next pass of `for job in jobs`, _run_single_job(job) returns.
WorkerRunJob(w) ==
    /\ w \in 1..Len(workers)
    /\ workers[w].state = "alive"
    /\ Len(workers[w].ran) < Len(workers[w].jobs)
    /\ workers' = [workers EXCEPT ![w].ran = Append(@, NextJobOf(w))]
    /\ UNCHANGED <<now, mainVars, slotVars, notSchedVars>>

\* _profile_worker: _run_single_job(job) raises (to_runner_config or
\* run_job_inline raised); nothing catches it and the process ends.
WorkerJobRaises(w) ==
    /\ w \in 1..Len(workers)
    /\ workers[w].state = "alive"
    /\ Len(workers[w].ran) < Len(workers[w].jobs)
    /\ workers' = [workers EXCEPT ![w].ran = Append(@, NextJobOf(w)), ![w].state = "dead"]
    /\ UNCHANGED <<now, mainVars, slotVars, notSchedVars>>

\* _profile_worker returns after its last job and the process ends.
WorkerExit(w) ==
    /\ w \in 1..Len(workers)
    /\ workers[w].state = "alive"
    /\ Len(workers[w].ran) = Len(workers[w].jobs)
    /\ workers' = [workers EXCEPT ![w].state = "dead"]
    /\ UNCHANGED <<now, mainVars, slotVars, notSchedVars>>

----------------------------------------------------------------------------
\* main: limit = max(1, limit or DEFAULT_LIMIT); 0 stands for None.
MainLimit(arg) ==
    LET given == IF arg = 0 THEN SCHEDULE_CONCURRENCY ELSE arg
    IN IF given < 1 THEN 1 ELSE given

\* _group_jobs_by_time: a job is immediate when its time does not parse or is
\* not after now.
IsImmediate(job, t) == job.target = NoTime \/ job.target <= t

\* The indices 1..n in order.
Indices(n) == [j \in 1..n |-> j]

\* The keys of scheduled: the targets of the scheduled jobs.
ScheduledTargets == {m_jobs[m_scheduled[i]].target : i \in 1..Len(m_scheduled)}

\* scheduled[target]: the scheduled jobs of a target, in list order.
SlotJobs(target) == SelectSeq(m_scheduled, LAMBDA j : m_jobs[j].target = target)

RECURSIVE SortedSeq(_)
\* sorted(scheduled_jobs.items(), key=lambda item: item[0]), the keys.
SortedSeq(S) ==
    IF S = {} THEN <<>>
    ELSE LET least == CHOOSE x \in S : \A y \in S : x <= y
         IN <<least>> \o SortedSeq(S \ {least})

\* main after build_jobs found jobs: _group_jobs_by_time(jobs).
MainGroupByTime ==
    /\ m_pc = "start"
    /\ m_immediate' = SelectSeq(Indices(Len(m_jobs)), LAMBDA j : IsImmediate(m_jobs[j], now))
    /\ m_scheduled' = SelectSeq(Indices(Len(m_jobs)), LAMBDA j : ~IsImmediate(m_jobs[j], now))
    /\ m_pc' = "immediate"
    /\ UNCHANGED <<m_jobs, m_limit, m_reg, s_queue, s_seq, now, slotVars, workers,
                   notSchedVars>>

\* main: if immediate_jobs: _dispatch_time_slot("immediate", ...) is called.
MainDispatchImmediate ==
    /\ m_pc = "immediate"
    /\ m_immediate # <<>>
    /\ d_pc' = "start"
    /\ d_label' = NoTime
    /\ d_jobs' = m_immediate
    /\ m_pc' = "immediate_wait"
    /\ UNCHANGED <<m_jobs, m_limit, m_immediate, m_scheduled, m_reg, s_queue, s_seq, now,
                   d_groups, d_gi, d_processes, d_join, d_log, workers,
                   notSchedVars>>

\* main: the immediate dispatch returned, or there was none; the registration
\* loop begins over the sorted slots.
MainBeginRegister ==
    /\ \/ m_pc = "immediate" /\ m_immediate = <<>> /\ UNCHANGED d_pc
       \/ m_pc = "immediate_wait" /\ d_pc = "returned" /\ d_pc' = "idle"
    /\ m_reg' = SortedSeq(ScheduledTargets)
    /\ m_pc' = "register"
    /\ UNCHANGED <<m_jobs, m_limit, m_immediate, m_scheduled, s_queue, s_seq, now,
                   d_label, d_jobs, d_groups, d_gi, d_processes, d_join, d_log, workers,
                   notSchedVars>>

\* SlotDelay that registers every slot as due at once.
SlotDelayNone(target, t) == 0

\* main: delay = max(0.0, (target - datetime.now()).total_seconds())
SlotDelay(target, t) == IF target - t > 0 THEN target - t ELSE 0

\* main: scheduler.enter(delay, 1, _dispatch_time_slot, ...) for the next slot;
\* sched enters the event at timefunc() + delay with the next sequence number.
MainRegister ==
    /\ m_pc = "register"
    /\ m_reg # <<>>
    /\ s_queue' = s_queue \cup
          {[time |-> now + SlotDelay(Head(m_reg), now), priority |-> 1, seq |-> s_seq,
            target |-> Head(m_reg)]}
    /\ s_seq' = s_seq + 1
    /\ m_reg' = Tail(m_reg)
    /\ UNCHANGED <<m_pc, m_jobs, m_limit, m_immediate, m_scheduled, now, slotVars, workers,
                   notSchedVars>>

\* main: every slot is registered; scheduler.run() if there are scheduled jobs.
MainRegisterDone ==
    /\ m_pc = "register"
    /\ m_reg = <<>>
    /\ m_pc' = IF m_scheduled # <<>> THEN "run" ELSE "done"
    /\ UNCHANGED <<m_jobs, m_limit, m_immediate, m_scheduled, m_reg, s_queue, s_seq, now,
                   slotVars, workers, notSchedVars>>

\* sched: the order of the heap, by (time, priority, sequence).
EventBefore(e, f) ==
    \/ e.time < f.time
    \/ e.time = f.time /\ e.priority < f.priority
    \/ e.time = f.time /\ e.priority = f.priority /\ e.seq <= f.seq

\* q[0]
FirstEvent == CHOOSE e \in s_queue : \A f \in s_queue : EventBefore(e, f)

\* scheduler.run: the first event is due: it is popped and its action called.
\* While it is not due, run sleeps in delayfunc and looks again.
SchedulerRunEvent ==
    /\ m_pc = "run"
    /\ s_queue # {}
    /\ FirstEvent.time <= now
    /\ s_queue' = s_queue \ {FirstEvent}
    /\ d_pc' = "start"
    /\ d_label' = FirstEvent.target
    /\ d_jobs' = SlotJobs(FirstEvent.target)
    /\ m_pc' = "run_wait"
    /\ UNCHANGED <<m_jobs, m_limit, m_immediate, m_scheduled, m_reg, s_seq, now,
                   d_groups, d_gi, d_processes, d_join, d_log, workers,
                   notSchedVars>>

\* scheduler.run: the action returned; the loop looks at the queue again.
SchedulerEventReturned ==
    /\ m_pc = "run_wait"
    /\ d_pc = "returned"
    /\ d_pc' = "idle"
    /\ m_pc' = "run"
    /\ UNCHANGED <<m_jobs, m_limit, m_immediate, m_scheduled, m_reg, s_queue, s_seq, now,
                   d_label, d_jobs, d_groups, d_gi, d_processes, d_join, d_log, workers,
                   notSchedVars>>

\* scheduler.run: the queue is empty, run and main return.
SchedulerRunEnd ==
    /\ m_pc = "run"
    /\ s_queue = {}
    /\ m_pc' = "done"
    /\ UNCHANGED <<m_jobs, m_limit, m_immediate, m_scheduled, m_reg, s_queue, s_seq, now,
                   slotVars, workers, notSchedVars>>

\* Time passes.
Tick ==
    /\ m_pc # "done"
    /\ now < MaxTime
    /\ now' = now + 1
    /\ UNCHANGED <<mainVars, slotVars, workers, notSchedVars>>

----------------------------------------------------------------------------
(* The schedule table and its link column (schedule_reader.py) *)

\* The header row: its link column is named "link" or "Link", or is missing.
HeaderNames == {"link", "Link", "none"}

\* A line below the header: a blank line, or a record with its link cell
\* (empty, white space, or a URL).
Row(kind, link) == [kind |-> kind, link |-> link]
BlankRow == Row("blank", "")
LinkCells == {"", " ", "url"}
RowValues == {BlankRow} \cup {Row("rec", c) : c \in LinkCells}

\* _clean / _normalize_field: the text stripped.
NormalizeField(value) == IF value = " " THEN "" ELSE value

\* _read_csv_records: csv.DictReader yields one record per line that is not
\* blank; the result lists the lines (by position below the header) it kept.
ReadCsvRecords(rows) ==
    SelectSeq([i \in 1..Len(rows) |-> i], LAMBDA i : rows[i].kind = "rec")

\* The cell of a line in the column that write_link_to_schedule takes for the
\* link column (header.strip().lower() == "link").
LinkCell(header, rows, i) == IF header = "none" THEN "" ELSE rows[i].link

\* read_schedule: per record, row.get("link", "") normalized and
\* __row_index = idx + 1 with idx counting the records from 1. src and cell
\* remember the line the record was read from and its link cell.
ReadSchedule(header, rows) ==
    LET recs == ReadCsvRecords(rows) IN
    [idx \in 1..Len(recs) |->
        [link |-> NormalizeField(IF header = "link" THEN rows[recs[idx]].link ELSE ""),
         row_index |-> idx + 1,
         src |-> recs[idx],
         cell |-> LinkCell(header, rows, recs[idx])]]

\* build_jobs: a record whose normalized link is not empty is skipped.
BuildJobs(columns) ==
    SelectSeq(columns, LAMBDA data : NormalizeField(data.link) = "")

\* write_link_to_schedule on a CSV table: rows = list(csv.reader(fh)) counts
\* every line, the header is matched without regard to case and appended when
\* missing (every line is then padded to the header's length), lines are
\* appended up to row_index, and rows[row_index - 1][link_idx] = url.
WriteLinkToSchedule(header, rows, row_index, url) ==
    IF row_index <= 1 THEN [header |-> header, rows |-> rows]
    ELSE LET widened == IF header = "none"
                        THEN [i \in 1..Len(rows) |-> Row("rec", rows[i].link)]
                        ELSE rows
             need == row_index - 1
             padded == [i \in 1..(IF Len(widened) < need THEN need ELSE Len(widened)) |->
                           IF i <= Len(widened) THEN widened[i] ELSE Row("rec", "")]
         IN [header |-> IF header = "none" THEN "link" ELSE header,
             rows |-> [padded EXCEPT ![need] = Row("rec", url)]]

\* main: read_schedule and build_jobs over the table; the jobs are then run.
LinkMain ==
    /\ l_pc = "idle"
    /\ l_run < MaxRuns
    /\ l_run' = l_run + 1
    /\ l_jobs' = BuildJobs(ReadSchedule(t_header, t_rows))
    /\ l_next' = 1
    /\ l_pc' = "running"
    /\ UNCHANGED <<t_header, t_rows, l_dispatched, l_written, notLinkVars>>

\* _run_single_job for the next job: run_job_inline returns its events; when
\* they hold a success event with "Medium URL:", the URL is written with
\* write_link_to_schedule(table_path, row_index, publish_url).
LinkRunSingleJob(published) ==
    /\ l_pc = "running"
    /\ l_next <= Len(l_jobs)
    /\ LET job == l_jobs[l_next]
           table == WriteLinkToSchedule(t_header, t_rows, job.row_index, "url")
       IN /\ l_dispatched' = l_dispatched \cup {[run |-> l_run, src |-> job.src]}
          /\ IF published
             THEN /\ t_header' = table.header
                  /\ t_rows' = table.rows
                  /\ l_written' = l_written \cup
                        {[run |-> l_run, row |-> job.row_index - 1, src |-> job.src]}
             ELSE UNCHANGED <<t_header, t_rows, l_written>>
    /\ l_next' = l_next + 1
    /\ UNCHANGED <<l_pc, l_run, l_jobs, notLinkVars>>

\* main returns after the last job.
LinkMainReturn ==
    /\ l_pc = "running"
    /\ l_next > Len(l_jobs)
    /\ l_pc' = "idle"
    /\ UNCHANGED <<t_header, t_rows, l_run, l_jobs, l_next, l_dispatched, l_written,
                   notLinkVars>>

----------------------------------------------------------------------------
(* _load_medium_page (medium_selenium.py) *)

\* How one driver.get(url) can end: the page loaded, a WebDriverException with
\* ERR_CONNECTION_REFUSED in its text, or any other WebDriverException.
GetOutcomes == {"loaded", "refused_exc", "other_exc"}

\* RetryAfterRefusal that retries on the last attempt too.
RetryAfterRefusalAlways(attempt, attempts) == attempt <= attempts

\* _load_medium_page: if attempt < attempts: _sleep(...); continue
RetryAfterRefusal(attempt, attempts) == attempt < attempts

\* _load_medium_page is called: for attempt in range(1, attempts + 1); with an
\* empty range last_exc is None and the function returns.
LoadStart ==
    /\ ld_pc = "idle"
    /\ ld_attempt' = 1
    /\ IF ld_attempts >= 1
       THEN ld_pc' = "get" /\ UNCHANGED ld_result
       ELSE ld_pc' = "done" /\ ld_result' = "returned"
    /\ UNCHANGED <<ld_attempts, ld_log, notLoadVars>>

\* The branch taken after a connection refusal: the next attempt, or raise.
LoadRefused ==
    IF RetryAfterRefusal(ld_attempt, ld_attempts)
    THEN /\ ld_attempt' = ld_attempt + 1
         /\ ld_pc' = "get"
         /\ UNCHANGED ld_result
    ELSE /\ ld_pc' = "done"
         /\ ld_result' = "raised"
         /\ UNCHANGED ld_attempt

\* driver.get(url) of one attempt and the except WebDriverException branch.
LoadGet(outcome) ==
    /\ ld_pc = "get"
    /\ ld_log' = Append(ld_log, outcome)
    /\ CASE outcome = "loaded" ->
               ld_pc' = "check" /\ UNCHANGED <<ld_attempt, ld_result>>
         [] outcome = "refused_exc" -> LoadRefused
         [] outcome = "other_exc" ->
               ld_pc' = "done" /\ ld_result' = "raised" /\ UNCHANGED ld_attempt
    /\ UNCHANGED <<ld_attempts, notLoadVars>>

\* _is_connection_refused_page(driver) after a load, and what follows it.
LoadCheckPage(refused) ==
    /\ ld_pc = "check"
    /\ IF refused
       THEN /\ ld_log' = [ld_log EXCEPT ![Len(ld_log)] = "refused_page"]
            /\ LoadRefused
       ELSE /\ ld_pc' = "done"
            /\ ld_result' = "returned"
            /\ UNCHANGED <<ld_attempt, ld_log>>
    /\ UNCHANGED <<ld_attempts, notLoadVars>>

----------------------------------------------------------------------------
(* _sanitize_medium_html and _MediumHTMLFilter (medium_selenium.py) *)

\* An attribute value: not given (<a href>), or a text made of leading or
\* trailing white space, a scheme prefix and the rest.
Val(pad, scheme, rest) == [given |-> TRUE, pad |-> pad, scheme |-> scheme, rest |-> rest]
NoneValue == [given |-> FALSE, pad |-> FALSE, scheme |-> "", rest |-> ""]
Plain(text) == Val(FALSE, "", text)
Attr(name, value) == [name |-> name, value |-> value]

\* Markup tokens: start tags, end tags and text.
StartTag(tag, attrs, self_closing) ==
    [kind |-> "start", tag |-> tag, attrs |-> attrs, self_closing |-> self_closing]
EndTag(tag) == [kind |-> "end", tag |-> tag, attrs |-> <<>>, self_closing |-> FALSE]
Text == [kind |-> "text", tag |-> "", attrs |-> <<>>, self_closing |-> FALSE]

ALLOWED_TAGS ==
    {"p", "strong", "em", "b", "i", "u", "a", "blockquote", "pre", "code", "ul", "ol",
     "li", "br", "img", "h1", "h2", "h3", "h4", "h5", "h6", "span", "figure",
     "figcaption", "section", "div", "hr"}

\* ALLOWED_TAGS[tag]: the attribute allow-list (empty for set() and None).
AllowedAttrs(tag) ==
    CASE tag = "a" -> {"href", "title"}
      [] tag = "img" -> {"src", "alt", "title"}
      [] tag = "figure" -> {"class", "data-image-id", "data-width", "data-height",
                            "data-delayed-src", "data-action", "role", "style", "tabindex"}
      [] tag = "figcaption" -> {"class", "contenteditable", "data-default-value", "style"}
      [] tag = "section" -> {"class", "name"}
      [] tag = "div" -> {"class", "style", "data-action-scope", "data-used", "id", "role",
                         "tabindex"}
      [] OTHER -> {}

SELF_CLOSING_TAGS == {"br", "img", "hr"}
URL_ATTRS == {"href", "src"}
ALLOWED_SCHEMES == {"http://", "https://", "mailto:", "tel:"}

\* str.lower() on the scheme prefixes that occur.
LowerScheme(scheme) ==
    CASE scheme = "HTTPS://" -> "https://"
      [] scheme = "JavaScript:" -> "javascript:"
      [] OTHER -> scheme

\* attr_value.strip()
Strip(value) == [value EXCEPT !.pad = FALSE]

\* UrlValueAllowed that lets every value pass.
UrlValueAllowedAny(value) == TRUE

\* _append_start: not (attr_value and not attr_value.lower().startswith(ALLOWED_SCHEMES))
UrlValueAllowed(value) ==
    \/ value.scheme = "" /\ value.rest = ""
    \/ LowerScheme(value.scheme) \in ALLOWED_SCHEMES

\* _append_start: whether an attribute is kept.
KeepAttr(allowed, attr) ==
    /\ attr.value.given
    /\ attr.name \in allowed
    /\ attr.name \in URL_ATTRS => UrlValueAllowed(Strip(attr.value))

\* _append_start: the kept attributes, stripped, in order.
FilterAttrs(allowed, attrs) ==
    LET kept == SelectSeq(attrs, LAMBDA attr : KeepAttr(allowed, attr))
    IN [i \in 1..Len(kept) |-> Attr(kept[i].name, Strip(kept[i].value))]

\* _MediumHTMLFilter._append_start: the parts appended for a start tag.
AppendStart(tok) ==
    IF tok.tag \notin ALLOWED_TAGS THEN <<>>
    ELSE <<StartTag(tok.tag, FilterAttrs(AllowedAttrs(tok.tag), tok.attrs),
                    tok.tag \in SELF_CLOSING_TAGS \/ tok.self_closing)>>

\* _MediumHTMLFilter.handle_endtag
HandleEndTag(tok) ==
    IF tok.tag \in ALLOWED_TAGS /\ tok.tag \notin SELF_CLOSING_TAGS
    THEN <<EndTag(tok.tag)>> ELSE <<>>

\* HTMLParser.feed: the handlers run token by token; after a start tag of
\* script or style the parser hands everything up to the matching end tag to
\* handle_data. cdata is the element being skipped over, "" if none.
RECURSIVE Feed(_, _, _)
Feed(toks, i, cdata) ==
    IF i > Len(toks) THEN <<>>
    ELSE LET tok == toks[i] IN
         IF cdata # "" /\ ~(tok.kind = "end" /\ tok.tag = cdata)
         THEN <<Text>> \o Feed(toks, i + 1, cdata)
         ELSE CASE tok.kind = "start" ->
                       AppendStart(tok) \o
                       Feed(toks, i + 1,
                            IF tok.tag \in {"script", "style"} /\ ~tok.self_closing
                            THEN tok.tag ELSE "")
                [] tok.kind = "end" -> HandleEndTag(tok) \o Feed(toks, i + 1, "")
                [] OTHER -> <<Text>> \o Feed(toks, i + 1, "")

\* The end tag that closes toks[i] for SCRIPT_TAG_RE: the first later end tag of
\* the same name, 0 if there is none.
ClosingIndex(toks, i) ==
    LET later == {j \in (i + 1)..Len(toks) : toks[j].kind = "end" /\ toks[j].tag = toks[i].tag}
    IN IF later = {} THEN 0 ELSE CHOOSE j \in later : \A k \in later : j <= k

\* SCRIPT_TAG_RE.sub(""): script, style and iframe elements that are closed
\* are removed with their content.
RECURSIVE ScriptTagSub(_, _)
ScriptTagSub(toks, i) ==
    IF i > Len(toks) THEN <<>>
    ELSE IF /\ toks[i].kind = "start"
            /\ toks[i].tag \in {"script", "style", "iframe"}
            /\ ClosingIndex(toks, i) # 0
         THEN ScriptTagSub(toks, ClosingIndex(toks, i) + 1)
         ELSE <<toks[i]>> \o ScriptTagSub(toks, i + 1)

\* The attribute names that begin with "on".
IsOnAttr(name) == name \in {"onclick", "onerror"}

\* ON_ATTR_RE.sub(""): quoted on* attributes are removed.
OnAttrSub(toks) ==
    [i \in 1..Len(toks) |->
        [toks[i] EXCEPT !.attrs =
            SelectSeq(@, LAMBDA attr : ~(IsOnAttr(attr.name) /\ attr.value.given))]]

\* WRAPPER_TAG_RE.sub(""): start and end tags of the wrapper elements are removed.
WrapperTagSub(toks) ==
    SelectSeq(toks, LAMBDA tok :
        tok.tag \notin {"html", "head", "body", "article", "main", "section", "nav", "aside"})

\* cleaned.replace("<b>", "<strong>") and the like, for the bare tags.
ReplaceBare(toks) ==
    [i \in 1..Len(toks) |->
        LET tok == toks[i]
            bare == tok.kind = "end" \/ (tok.attrs = <<>> /\ ~tok.self_closing)
        IN CASE bare /\ tok.tag = "b" -> [tok EXCEPT !.tag = "strong"]
             [] bare /\ tok.tag = "i" -> [tok EXCEPT !.tag = "em"]
             [] bare /\ tok.tag = "u" /\ tok.kind = "start" ->
                    StartTag("span", <<Attr("style", Plain("text-decoration:underline"))>>, FALSE)
             [] bare /\ tok.tag = "u" /\ tok.kind = "end" -> EndTag("span")
             [] OTHER -> tok]

\* _sanitize_medium_html(raw_html, preserve_medium_markup=False)
SanitizeMediumHtml(raw_html) ==
    Feed(ReplaceBare(WrapperTagSub(OnAttrSub(ScriptTagSub(raw_html, 1)))), 1, "")

\* The markup tokens the inputs are made of.
InputTokens ==
    {StartTag("p", <<>>, FALSE),
     StartTag("p", <<Attr("onclick", Plain("x"))>>, FALSE),
     StartTag("a", <<Attr("href", Val(FALSE, "https://", "x")), Attr("title", Plain("t"))>>, FALSE),
     StartTag("a", <<Attr("href", Val(FALSE, "javascript:", "x")), Attr("onclick", Plain("x"))>>, FALSE),
     StartTag("a", <<Attr("href", Val(TRUE, "HTTPS://", "x"))>>, FALSE),
     StartTag("a", <<Attr("href", Val(TRUE, "JavaScript:", "x"))>>, FALSE),
     StartTag("a", <<Attr("href", Plain(""))>>, FALSE),
     StartTag("a", <<Attr("href", NoneValue)>>, FALSE),
     StartTag("a", <<Attr("href", Plain("/rel"))>>, FALSE),
     StartTag("img", <<Attr("src", Val(FALSE, "javascript:", "x")), Attr("alt", Plain("t"))>>, FALSE),
     StartTag("img", <<Attr("src", Val(FALSE, "https://", "x")), Attr("onerror", NoneValue)>>, TRUE),
     StartTag("script", <<>>, FALSE),
     StartTag("iframe", <<Attr("src", Val(FALSE, "https://", "x"))>>, FALSE),
     StartTag("style", <<>>, FALSE),
     StartTag("b", <<>>, FALSE),
     StartTag("u", <<>>, FALSE),
     StartTag("div", <<Attr("style", Plain("s")), Attr("id", Plain("i")), Attr("data-x", Plain("v"))>>, FALSE),
     StartTag("form", <<Attr("action", Plain("x"))>>, FALSE),
     StartTag("section", <<Attr("class", Plain("c"))>>, FALSE),
     EndTag("p"), EndTag("a"), EndTag("script"), EndTag("iframe"), EndTag("b"),
     EndTag("u"), EndTag("form"), EndTag("img"),
     Text}

\* The call _sanitize_medium_html(raw_html).
SanitizeCall ==
    /\ san_pc = "idle"
    /\ san_out' = SanitizeMediumHtml(san_in)
    /\ san_pc' = "done"
    /\ UNCHANGED <<san_in, notSanVars>>

----------------------------------------------------------------------------
(* find_or_create_profile and start_profile (gpm_profile.py, test_api_new.py) *)

\* find_or_create_profile(..., create_if_missing: bool = False): the value of
\* the parameter for each way of calling.
CreateIfMissing(arg) == arg = "True"

\* find_or_create_profile up to the lookup: an existing profile is returned;
\* without create_if_missing None is returned; else create_profile follows.
FindOrCreateProfile ==
    /\ g_pc = "step1"
    /\ IF g_lookup = "found"
       THEN g_profile' = "existing" /\ g_pc' = "step2"
       ELSE IF ~CreateIfMissing(g_create_arg)
            THEN g_profile' = "None" /\ g_pc' = "exit"
            ELSE g_pc' = "create" /\ UNCHANGED g_profile
    /\ UNCHANGED <<g_create_arg, g_lookup, g_created, g_retry_attempts, g_dirs, g_dir, g_log,
                   g_driver, notGpmVars>>

\* create_profile answers: the new profile, or None on any failure.
CreateProfile(ok) ==
    /\ g_pc = "create"
    /\ g_created' = IF ok THEN "ok" ELSE "failed"
    /\ g_profile' = IF ok THEN "new" ELSE "None"
    /\ g_pc' = IF ok THEN "step2" ELSE "exit"
    /\ UNCHANGED <<g_create_arg, g_lookup, g_retry_attempts, g_dirs, g_dir, g_log, g_driver,
                   notGpmVars>>

\* start_profile: user_data_dir or info_user_data_dir or CHROME_USER_DATA_DIR
ResolvedUserDataDir(dirs) ==
    IF dirs.arg THEN "arg"
    ELSE IF dirs.info THEN "info"
    ELSE IF dirs.config THEN "config"
    ELSE "none"

\* start_profile up to the loop: None when no user_data_dir is resolved.
StartProfile ==
    /\ g_pc = "step2"
    /\ g_dir' = ResolvedUserDataDir(g_dirs)
    /\ IF g_dir' = "none"
       THEN g_driver' = "None" /\ g_pc' = "summary"
       ELSE g_pc' = "launch" /\ UNCHANGED g_driver
    /\ UNCHANGED <<g_create_arg, g_lookup, g_created, g_profile, g_retry_attempts, g_dirs,
                   g_log, notGpmVars>>

\* AttemptsLeft that allows one attempt more.
AttemptsLeftOneMore(made, retry_attempts) == made <= retry_attempts

\* start_profile: for attempt in range(retry_attempts)
AttemptsLeft(made, retry_attempts) == made < retry_attempts

\* One turn of the loop: open_chrome_with_selenium returns a driver, which is
\* returned, or raises, which is logged before the next turn.
StartProfileAttempt(ok) ==
    /\ g_pc = "launch"
    /\ AttemptsLeft(Len(g_log), g_retry_attempts)
    /\ g_log' = Append(g_log, IF ok THEN "ok" ELSE "failed")
    /\ IF ok
       THEN g_driver' = "driver" /\ g_pc' = "summary"
       ELSE UNCHANGED <<g_driver, g_pc>>
    /\ UNCHANGED <<g_create_arg, g_lookup, g_created, g_profile, g_retry_attempts, g_dirs,
                   g_dir, notGpmVars>>

\* The loop ran out: start_profile returns None.
StartProfileGiveUp ==
    /\ g_pc = "launch"
    /\ ~AttemptsLeft(Len(g_log), g_retry_attempts)
    /\ g_driver' = "None"
    /\ g_pc' = "summary"
    /\ UNCHANGED <<g_create_arg, g_lookup, g_created, g_profile, g_retry_attempts, g_dirs,
                   g_dir, g_log, notGpmVars>>

----------------------------------------------------------------------------
(* Workers of one slot writing links to one CSV schedule (schedule_reader.py) *)

Writers == 1..MaxWriters

\* The workers of the slot that are alive.
AliveWriters == {w \in Writers : c_w[w].pc \in {"running", "read"}}

\* _dispatch_time_slot starts the worker of the next group when fewer than
\* limit of the workers started before are alive.
CsvStartWorker(w) ==
    /\ c_w[w].pc = "waiting"
    /\ \A v \in Writers : v < w => c_w[v].pc # "waiting"
    /\ CanStart(Cardinality(AliveWriters), c_limit)
    /\ c_w' = [c_w EXCEPT ![w].pc = "running"]
    /\ UNCHANGED <<c_limit, c_rows, notCsvVars>>

\* _run_single_job: run_job_inline returned; without a publish_url nothing is
\* written and the worker ends, else write_link_to_schedule reads the table:
\* rows = list(csv.reader(fh)).
CsvRunJobAndRead(w, published) ==
    /\ c_w[w].pc = "running"
    /\ c_w' = [c_w EXCEPT ![w] =
                  IF published
                  THEN [pc |-> "read", url |-> w, rows |-> c_rows]
                  ELSE [pc |-> "dead", url |-> 0, rows |-> @.rows]]
    /\ UNCHANGED <<c_limit, c_rows, notCsvVars>>

\* write_link_to_schedule: row[link_idx] = url in the rows read, which are then
\* written out as the whole file; the worker ends.
CsvWrite(w) ==
    /\ c_w[w].pc = "read"
    /\ c_rows' = [c_w[w].rows EXCEPT ![w] = c_w[w].url]
    /\ c_w' = [c_w EXCEPT ![w].pc = "dead"]
    /\ UNCHANGED <<c_limit, notCsvVars>>

----------------------------------------------------------------------------
(* ScheduleJob.to_runner_config (schedule_reader.py, social_poster.py) *)

\* The platform of a job: the row's cell, 'Medium' when the cell is empty.
JobPlatforms == {"medium", "Medium", "MEDIUM", "LinkedIn", "Other"}

\* platform.lower()
LowerPlatform(platform) ==
    CASE platform \in {"Medium", "MEDIUM"} -> "medium"
      [] platform = "LinkedIn" -> "linkedin"
      [] platform = "Other" -> "other"
      [] OTHER -> platform

\* The ScheduleJob fields to_runner_config reads.
ScheduleJobs ==
    [platform : JobPlatforms, profile : {ProfEmpty, ProfRelA}, title : {"", "T"},
     content : {"", "C"}, table_path : {"", "t.csv"}, row_index : {0, 2}]

\* The fields of dataclass MediumJobConfig, and those without a default.
MediumJobConfigFields ==
    {"profile_path", "title", "content", "tags", "headless", "keep_browser_open",
     "manual_login", "publish_now", "profile_name", "manual_login_timeout"}

MediumJobConfigRequired == {"profile_path", "title", "content"}

\* MediumJobConfig(**kwargs): the generated __init__ takes the fields as its
\* parameters; any other keyword, or a missing required one, is a TypeError.
MediumJobConfig(kwargs) ==
    IF /\ DOMAIN kwargs \subseteq MediumJobConfigFields
       /\ MediumJobConfigRequired \subseteq DOMAIN kwargs
    THEN [kind |-> "MediumJobConfig", args |-> kwargs]
    ELSE [kind |-> "TypeError", args |-> kwargs]

\* RunnerConfig.medium when no MediumJobConfig is given.
NoMedium == [kind |-> "None"]

\* RunnerConfig(platform=..., medium=...)
RunnerConfig(platform, medium) ==
    [kind |-> "RunnerConfig", platform |-> platform, medium |-> medium]

\* x or default, on strings
StrOr(x, default) == IF x # "" THEN x ELSE default

\* ScheduleJob.to_runner_config
ToRunnerConfig(job) ==
    LET platform == StrOr(job.platform, "Medium") IN
    IF LowerPlatform(platform) # "medium" THEN RunnerConfig(platform, NoMedium)
    ELSE LET profile_name == IF job.profile.kind = "empty" THEN "Default"
                             ELSE job.profile.name
             medium_cfg == MediumJobConfig(
                 [profile_path |-> ResolveProfilePath(job.profile),
                  profile_name |-> profile_name,
                  title |-> StrOr(job.title, "Untitled"),
                  content |-> StrOr(job.content, ""),
                  schedule_table |-> job.table_path,
                  schedule_row |-> job.row_index])
         IN IF medium_cfg.kind = "TypeError" THEN medium_cfg
            ELSE RunnerConfig("Medium", medium_cfg)

\* _run_single_job: cfg = job.to_runner_config()
CfgBuild ==
    /\ cf_pc = "idle"
    /\ cf_result' = ToRunnerConfig(cf_job)
    /\ cf_pc' = "built"
    /\ UNCHANGED <<cf_job, notCfgVars>>

\* _run_single_job: events = run_job_inline(cfg, ...)
CfgRunJobInline ==
    /\ cf_pc = "built"
    /\ cf_result.kind = "RunnerConfig"
    /\ cf_pc' = "inline"
    /\ UNCHANGED <<cf_job, cf_result, notCfgVars>>

\* _run_single_job: the exception of to_runner_config leaves the function.
CfgRaise ==
    /\ cf_pc = "built"
    /\ cf_result.kind = "TypeError"
    /\ cf_pc' = "raised"
    /\ UNCHANGED <<cf_job, cf_result, notCfgVars>>

----------------------------------------------------------------------------
(* fill_title_and_body and _type_body_plain (medium_selenium.py) *)

\* How one pass of the title loop can end: the title element is not located,
\* both clicks fail, _slow_type_keys raises StaleElementReferenceException or
\* another exception, or the title is typed.
TitleOutcomes == {"not_found", "click_failed", "stale", "type_failed", "typed"}

\* for attempt in range(3)
AttemptsRemain(made) == made < TITLE_ATTEMPTS

\* fill_title_and_body up to the title loop: the container is resolved and the
\* title selectors are configured.
FillStart ==
    /\ ft_pc = "idle"
    /\ ft_pc' = "title"
    /\ UNCHANGED <<ft_log, ft_last_exc, ft_raised, tb_text_blob, tb_rich_html, tb_copied, tb_copy_ok,
                   tb_pasted, tb_result, renVars, notFillVars>>

\* One pass of the title loop: break when the title was typed, last_exc = exc on
\* a StaleElementReferenceException, continue otherwise.
TitleAttempt(outcome) ==
    /\ ft_pc = "title"
    /\ AttemptsRemain(Len(ft_log))
    /\ ft_log' = Append(ft_log, outcome)
    /\ ft_last_exc' = (ft_last_exc \/ outcome = "stale")
    /\ ft_pc' = IF outcome = "typed" THEN "body" ELSE "title"
    /\ UNCHANGED <<ft_raised, tb_text_blob, tb_rich_html, tb_copied, tb_copy_ok, tb_pasted, tb_result,
                   renVars, notFillVars>>

\* TitleLoopRaises that forgets last_exc.
TitleLoopRaisesTimeout(last_exc) == "TimeoutException"

\* The else branch of the title loop: raise last_exc if there is one, else
\* TimeoutException("Could not locate Medium title field.").
TitleLoopRaises(last_exc) ==
    IF last_exc THEN "StaleElementReferenceException" ELSE "TimeoutException"

\* The title loop ended without break.
TitleLoopElse ==
    /\ ft_pc = "title"
    /\ ~AttemptsRemain(Len(ft_log))
    /\ ft_raised' = TitleLoopRaises(ft_last_exc)
    /\ ft_pc' = "raised"
    /\ UNCHANGED <<ft_log, ft_last_exc, tb_text_blob, tb_rich_html, tb_copied, tb_copy_ok, tb_pasted,
                   tb_result, renVars, notFillVars>>

\* _type_body_plain up to _acquire_body_element: an empty text blob returns True.
TypeBodyPlainStart ==
    /\ ft_pc = "body"
    /\ IF tb_text_blob = ""
       THEN /\ tb_result' = "True"
            /\ ft_pc' = "body_done"
       ELSE /\ tb_result' = tb_result
            /\ ft_pc' = "acquire"
    /\ UNCHANGED <<ft_log, ft_last_exc, ft_raised, tb_text_blob, tb_rich_html, tb_copied, tb_copy_ok,
                   tb_pasted, renVars, notFillVars>>

\* body_el = _acquire_body_element(): the element after up to three passes, or
\* None, and then _type_body_plain returns False.
AcquireBodyElement(found) ==
    /\ ft_pc = "acquire"
    /\ IF found
       THEN /\ ft_pc' = "copy"
            /\ tb_result' = tb_result
       ELSE /\ ft_pc' = "body_done"
            /\ tb_result' = "False"
    /\ UNCHANGED <<ft_log, ft_last_exc, ft_raised, tb_text_blob, tb_rich_html, tb_copied, tb_copy_ok,
                   tb_pasted, renVars, notFillVars>>

\* _clipboard_copy_content(driver, text, rich_html), with the results of
\* _copy_html_to_clipboard and _copy_text_to_clipboard: what was copied, "none"
\* standing for the return value False.
ClipboardCopyContent(text, rich_html, richOk, textOk) ==
    IF rich_html # "" /\ richOk THEN "rich"
    ELSE IF text # "" /\ textOk THEN "text" ELSE "none"

\* _type_body_plain: if _clipboard_copy_content(...), else return False.
TypeBodyCopy(richOk, textOk) ==
    /\ ft_pc = "copy"
    /\ tb_copied' = ClipboardCopyContent(tb_text_blob, tb_rich_html, richOk, textOk)
    /\ tb_copy_ok' = [called |-> TRUE, rich |-> richOk, text |-> textOk]
    /\ IF tb_copied' = "none"
       THEN /\ ft_pc' = "body_done"
            /\ tb_result' = "False"
       ELSE /\ ft_pc' = "paste"
            /\ tb_result' = tb_result
    /\ UNCHANGED <<ft_log, ft_last_exc, ft_raised, tb_text_blob, tb_rich_html, tb_pasted,
                   renVars, notFillVars>>

\* clipboard_ok = _paste_from_clipboard_into_element(driver, body_el): True after
\* the paste key sequence was performed, False when the click or the keys failed.
TypeBodyPaste(ok) ==
    /\ ft_pc = "paste"
    /\ tb_pasted' = ok
    /\ tb_result' = IF ok THEN "True" ELSE "False"
    /\ ft_pc' = "body_done"
    /\ UNCHANGED <<ft_log, ft_last_exc, ft_raised, tb_text_blob, tb_rich_html, tb_copied, tb_copy_ok,
                   renVars, notFillVars>>

\* fill_title_and_body after _type_body_plain: it returns.
FillReturn ==
    /\ ft_pc = "body_done"
    /\ ft_pc' = "returned"
    /\ UNCHANGED <<ft_log, ft_last_exc, ft_raised, tb_text_blob, tb_rich_html, tb_copied, tb_copy_ok,
                   tb_pasted, tb_result, renVars, notFillVars>>

----------------------------------------------------------------------------
(* render_medium_body_text and _collapse_medium_lines (medium_selenium.py) *)

\* A string is the sequence of its characters; these are the characters used.
NL == "\n"
CR == "\r"
SP == " "
LineChars == {"a", SP, NL, CR}

\* The characters str.rstrip() removes, among LineChars.
Whitespace == {SP, NL, CR}

\* A line that is None.
NoneLine == <<"None">>

\* str(value).replace("\r\n", "\n").replace("\r", "\n")
RECURSIVE NormalizeNewlines(_)
NormalizeNewlines(str) ==
    IF str = <<>> THEN <<>>
    ELSE IF Len(str) >= 2 /\ str[1] = CR /\ str[2] = NL
         THEN <<NL>> \o NormalizeNewlines(SubSeq(str, 3, Len(str)))
         ELSE <<IF str[1] = CR THEN NL ELSE str[1]>> \o NormalizeNewlines(Tail(str))

\* normalized.split("\n")
RECURSIVE SplitNl(_)
SplitNl(str) ==
    LET at == {i \in 1..Len(str) : str[i] = NL} IN
    IF at = {} THEN <<str>>
    ELSE LET k == CHOOSE i \in at : \A j \in at : i <= j
         IN <<SubSeq(str, 1, k - 1)>> \o SplitNl(SubSeq(str, k + 1, Len(str)))

\* RStrip that strips nothing.
RStripNothing(str) == str

\* text.rstrip()
RECURSIVE RStrip(_)
RStrip(str) ==
    IF str # <<>> /\ str[Len(str)] \in Whitespace
    THEN RStrip(SubSeq(str, 1, Len(str) - 1))
    ELSE str

\* _collapse_medium_lines._append_piece
AppendPiece(collapsed, text) ==
    LET cleaned == RStrip(text) IN
    IF cleaned # <<>> THEN Append(collapsed, cleaned)
    ELSE IF collapsed # <<>> /\ collapsed[Len(collapsed)] = <<>> THEN collapsed
         ELSE Append(collapsed, <<>>)

\* for part in parts: _append_piece(part)
RECURSIVE AppendPieces(_, _)
AppendPieces(collapsed, parts) ==
    IF parts = <<>> THEN collapsed
    ELSE AppendPieces(AppendPiece(collapsed, Head(parts)), Tail(parts))

\* _collapse_medium_lines: the loop over lines.
RECURSIVE CollapseFrom(_, _)
CollapseFrom(collapsed, lines) ==
    IF lines = <<>> THEN collapsed
    ELSE CollapseFrom(
             IF Head(lines) = NoneLine THEN AppendPiece(collapsed, <<>>)
             ELSE AppendPieces(collapsed, SplitNl(NormalizeNewlines(Head(lines)))),
             Tail(lines))

\* while collapsed and collapsed[-1] == "": collapsed.pop()
RECURSIVE PopEmpty(_)
PopEmpty(collapsed) ==
    IF collapsed # <<>> /\ collapsed[Len(collapsed)] = <<>>
    THEN PopEmpty(SubSeq(collapsed, 1, Len(collapsed) - 1))
    ELSE collapsed

\* _collapse_medium_lines
CollapseMediumLines(lines) == PopEmpty(CollapseFrom(<<>>, lines))

\* "\n".join(collapsed)
RECURSIVE JoinNl(_)
JoinNl(parts) ==
    IF parts = <<>> THEN <<>>
    ELSE IF Len(parts) = 1 THEN parts[1]
         ELSE parts[1] \o <<NL>> \o JoinNl(Tail(parts))

\* re.sub(r"\n{2,}", "\n", text_blob)
RECURSIVE SubNewlines(_)
SubNewlines(str) ==
    IF Len(str) < 2 THEN str
    ELSE IF str[1] = NL /\ str[2] = NL THEN SubNewlines(Tail(str))
         ELSE <<str[1]>> \o SubNewlines(Tail(str))

\* text_blob.strip("\n")
RECURSIVE StripNl(_)
StripNl(str) ==
    IF str # <<>> /\ str[1] = NL THEN StripNl(Tail(str))
    ELSE IF str # <<>> /\ str[Len(str)] = NL THEN StripNl(SubSeq(str, 1, Len(str) - 1))
         ELSE str

\* render_medium_body_text from the lines on: the text blob returned.
RenderMediumBodyText(lines) == StripNl(SubNewlines(JoinNl(CollapseMediumLines(lines))))

\* The lines the conversions of the body hand over: strings and None.
InputLines ==
    LET strs == UNION {[1..n -> LineChars] : n \in 0..MaxLineLen} \cup {NoneLine}
    IN UNION {[1..n -> strs] : n \in 0..MaxLines}

\* One call of render_medium_body_text.
RenderCall ==
    /\ rn_pc = "idle"
    /\ rn_out' = RenderMediumBodyText(rn_in)
    /\ rn_pc' = "returned"
    /\ UNCHANGED <<rn_in, fillVars, notRenVars>>

----------------------------------------------------------------------------
(* Specifications *)

InitRun ==
    /\ runners = <<>>
    /\ is_running = FALSE
    /\ stop_evt = FALSE
    /\ app_runner = 0
    /\ gui = "idle"
    /\ last_start = "none"
    /\ inline_events = <<>>

\* The publish flow before any call of medium_publish_article_selenium.
InitPubIdle ==
    /\ p_pc = "idle"
    /\ p_retries = MEDIUM_SELENIUM_RETRIES
    /\ p_publish_now = TRUE
    /\ p_attempts = 0
    /\ p_result = "none"
    /\ p_url = NoUrl
    /\ p_polls = 0
    /\ b_cur = UrlBlank
    /\ b_share = NoUrl
    /\ b_overlay = FALSE
    /\ p_body = "none"
    /\ p_ready = "none"
    /\ p_opened = FALSE
    /\ p_confirms = 0
    /\ p_quota = "none"
    /\ p_success = FALSE
    /\ p_written = FALSE

\* The scheduler before main is called.
InitSchedIdle ==
    /\ now = StartTime
    /\ m_pc = "idle"
    /\ m_jobs = <<>>
    /\ m_limit = SCHEDULE_CONCURRENCY
    /\ m_immediate = <<>>
    /\ m_scheduled = <<>>
    /\ m_reg = <<>>
    /\ s_queue = {}
    /\ s_seq = 0
    /\ d_pc = "idle"
    /\ d_label = NoTime
    /\ d_jobs = <<>>
    /\ d_groups = <<>>
    /\ d_gi = 1
    /\ d_processes = <<>>
    /\ d_join = 1
    /\ workers = <<>>
    /\ d_log = <<>>

\* The schedule table before main reads it.
InitLinkIdle ==
    /\ t_header = "link"
    /\ t_rows = <<>>
    /\ l_pc = "idle"
    /\ l_run = 0
    /\ l_jobs = <<>>
    /\ l_next = 1
    /\ l_dispatched = {}
    /\ l_written = {}

\* _load_medium_page before it is called.
InitLoadIdle ==
    /\ ld_pc = "idle"
    /\ ld_attempts = 3
    /\ ld_attempt = 1
    /\ ld_log = <<>>
    /\ ld_result = "none"

\* _sanitize_medium_html before it is called.
InitSanIdle ==
    /\ san_pc = "idle"
    /\ san_in = <<>>
    /\ san_out = <<>>

\* The GPM functions before they are called.
InitGpmIdle ==
    /\ g_pc = "idle"
    /\ g_create_arg = "default"
    /\ g_lookup = "missing"
    /\ g_created = "none"
    /\ g_profile = "none"
    /\ g_retry_attempts = 3
    /\ g_dirs = [arg |-> FALSE, info |-> FALSE, config |-> TRUE]
    /\ g_dir = "none"
    /\ g_log = <<>>
    /\ g_driver = "none"

\* The CSV schedule with no worker started.
InitCsvIdle ==
    /\ c_limit = SCHEDULE_CONCURRENCY
    /\ c_rows = [w \in Writers |-> 0]
    /\ c_w = [w \in Writers |-> [pc |-> "waiting", url |-> 0, rows |-> c_rows]]

\* to_runner_config before it is called.
InitCfgIdle ==
    /\ cf_pc = "idle"
    /\ cf_job = [platform |-> "Medium", profile |-> ProfEmpty, title |-> "", content |-> "",
                 table_path |-> "", row_index |-> 0]
    /\ cf_result = NoMedium

\* fill_title_and_body before it is called.
InitFillIdle ==
    /\ ft_pc = "idle"
    /\ ft_log = <<>>
    /\ ft_last_exc = FALSE
    /\ ft_raised = "none"
    /\ tb_text_blob = ""
    /\ tb_rich_html = ""
    /\ tb_copied = "none"
    /\ tb_copy_ok = [called |-> FALSE, rich |-> FALSE, text |-> FALSE]
    /\ tb_pasted = FALSE
    /\ tb_result = "none"

\* render_medium_body_text before it is called.
InitRenIdle ==
    /\ rn_pc = "idle"
    /\ rn_in = <<>>
    /\ rn_out = <<>>

InitTxtIdle == InitFillIdle /\ InitRenIdle

\* The single functions before they are called.
InitFunIdle ==
    InitLoadIdle /\ InitSanIdle /\ InitGpmIdle /\ InitCsvIdle /\ InitCfgIdle /\ InitTxtIdle

InitFunsIdle == InitLoadIdle /\ InitSanIdle /\ InitGpmIdle /\ InitCsvIdle /\ InitCfgIdle

\* The long-running parts at rest.
InitPartsIdle == InitRun /\ InitPubIdle /\ InitSchedIdle /\ InitLinkIdle

\* The GUI: the Tk main thread's handlers and the Runner threads.
NextApp ==
    \/ \E p \in GuiPlatforms, ok \in BOOLEAN : StartRun(p, ok)
    \/ StopRun
    \/ StopRunJoined
    \/ StopRunJoinTimeout
    \/ PollQueue
    \/ \E r \in 1..Len(runners) : RunnerStep(r)
    \/ \E r \in 1..Len(runners) : ThreadExit(r)

InitApp == InitRun /\ InitPubIdle /\ InitSchedIdle /\ InitLinkIdle /\ InitFunIdle

SpecApp == InitApp /\ [][NextApp]_vars

\* The batch side: a caller running jobs one after another with run_job_inline.
NextInline ==
    \/ \E cfg \in RunnerConfigs : RunJobInline(cfg)
    \/ \E r \in 1..Len(runners) : RunnerStep(r)
    \/ \E r \in 1..Len(runners) : InlineDrain(r)

InitInline == InitRun /\ InitPubIdle /\ InitSchedIdle /\ InitLinkIdle /\ InitFunIdle

SpecInline == InitInline /\ [][NextInline]_vars

\* One call of medium_publish_article_selenium against a browser that changes
\* under it.
NextPublish ==
    \/ PublishStart
    \/ OpenEditor
    \/ FillTitleAndBody
    \/ WaitPublishReady
    \/ OpenPublishAndFill
    \/ ClickPublishConfirm
    \/ DetectQuota
    \/ AwaitPoll
    \/ AwaitTimeout
    \/ RunMediumAfterPublish
    \/ RunSingleJobWriteLink
    \/ BrowserNavigates
    \/ BrowserShowsShareLink
    \/ BrowserShowsQuotaOverlay

InitPublishCall ==
    /\ p_pc = "idle"
    /\ p_retries \in 0..MEDIUM_SELENIUM_RETRIES
    /\ p_publish_now \in BOOLEAN
    /\ p_attempts = 0
    /\ p_result = "none"
    /\ p_url = NoUrl
    /\ p_polls = 0
    /\ b_cur \in BrowserUrls
    /\ b_share = NoUrl
    /\ b_overlay = FALSE
    /\ p_body = "none"
    /\ p_ready = "none"
    /\ p_opened = FALSE
    /\ p_confirms = 0
    /\ p_quota = "none"
    /\ p_success = FALSE
    /\ p_written = FALSE

InitPublish == InitRun /\ InitPublishCall /\ InitSchedIdle /\ InitLinkIdle /\ InitFunIdle

SpecPublish == InitPublish /\ [][NextPublish]_vars

\* The job lists of 1 to most jobs over the given profile values and targets.
JobLists(profiles, targets, most) ==
    UNION {[1..n -> [profile : profiles, target : targets]] : n \in 1..most}

\* One call _dispatch_time_slot("immediate", jobs, limit, show_console).
InitSlot ==
    /\ InitRun /\ InitPubIdle /\ InitLinkIdle /\ InitFunIdle
    /\ now = StartTime
    /\ m_pc = "slot"
    /\ m_jobs \in JobLists(ProfileValues, {NoTime}, MaxJobs)
    /\ m_limit \in 1..MaxLimit
    /\ m_immediate = <<>>
    /\ m_scheduled = <<>>
    /\ m_reg = <<>>
    /\ s_queue = {}
    /\ s_seq = 0
    /\ d_pc = "start"
    /\ d_label = NoTime
    /\ d_jobs = [j \in 1..Len(m_jobs) |-> j]
    /\ d_groups = <<>>
    /\ d_gi = 1
    /\ d_processes = <<>>
    /\ d_join = 1
    /\ workers = <<>>
    /\ d_log = <<>>

NextSlot ==
    \/ DispatchStart
    \/ DispatchStartWorker
    \/ DispatchWait
    \/ DispatchBeginJoin
    \/ DispatchJoin
    \/ DispatchReturn
    \/ \E w \in 1..Len(workers) : WorkerRunJob(w)
    \/ \E w \in 1..Len(workers) : WorkerJobRaises(w)
    \/ \E w \in 1..Len(workers) : WorkerExit(w)

SpecSlot == InitSlot /\ [][NextSlot]_vars

\* schedule_reader.main on a schedule with jobs, from _group_jobs_by_time on.
InitMain ==
    /\ InitRun /\ InitPubIdle /\ InitLinkIdle /\ InitFunIdle
    /\ now = StartTime
    /\ m_pc = "start"
    /\ m_jobs \in JobLists(TimedProfileValues, Targets, MaxTimedJobs)
    /\ \E arg \in 0..MaxLimit : m_limit = MainLimit(arg)
    /\ m_immediate = <<>>
    /\ m_scheduled = <<>>
    /\ m_reg = <<>>
    /\ s_queue = {}
    /\ s_seq = 0
    /\ d_pc = "idle"
    /\ d_label = NoTime
    /\ d_jobs = <<>>
    /\ d_groups = <<>>
    /\ d_gi = 1
    /\ d_processes = <<>>
    /\ d_join = 1
    /\ workers = <<>>
    /\ d_log = <<>>

NextMain ==
    \/ MainGroupByTime
    \/ MainDispatchImmediate
    \/ MainBeginRegister
    \/ MainRegister
    \/ MainRegisterDone
    \/ SchedulerRunEvent
    \/ SchedulerEventReturned
    \/ SchedulerRunEnd
    \/ Tick
    \/ DispatchStart
    \/ DispatchStartWorker
    \/ DispatchWait
    \/ DispatchBeginJoin
    \/ DispatchJoin
    \/ DispatchReturn
    \/ \E w \in 1..Len(workers) : WorkerRunJob(w)
    \/ \E w \in 1..Len(workers) : WorkerJobRaises(w)
    \/ \E w \in 1..Len(workers) : WorkerExit(w)

SpecMain == InitMain /\ [][NextMain]_vars

\* Runs of main over one CSV schedule table.
NextLink ==
    \/ LinkMain
    \/ \E published \in BOOLEAN : LinkRunSingleJob(published)
    \/ LinkMainReturn

InitLink ==
    /\ InitRun /\ InitPubIdle /\ InitSchedIdle /\ InitFunIdle
    /\ t_header \in HeaderNames
    /\ t_rows \in UNION {[1..n -> RowValues] : n \in 1..MaxRows}
    /\ l_pc = "idle"
    /\ l_run = 0
    /\ l_jobs = <<>>
    /\ l_next = 1
    /\ l_dispatched = {}
    /\ l_written = {}

SpecLink == InitLink /\ [][NextLink]_vars

\* One call _load_medium_page(driver, url, attempts).
NextLoad ==
    \/ LoadStart
    \/ \E outcome \in GetOutcomes : LoadGet(outcome)
    \/ \E refused \in BOOLEAN : LoadCheckPage(refused)

InitLoad ==
    /\ InitPartsIdle /\ InitSanIdle /\ InitGpmIdle /\ InitCsvIdle /\ InitCfgIdle /\ InitTxtIdle
    /\ ld_pc = "idle"
    /\ ld_attempts \in 1..MaxAttempts
    /\ ld_attempt = 1
    /\ ld_log = <<>>
    /\ ld_result = "none"

SpecLoad == InitLoad /\ [][NextLoad]_vars

----------------------------------------------------------------------------
(* Claims about _load_medium_page *)

Refusals == {"refused_exc", "refused_page"}

\* C12: _load_medium_page performs at most attempts page loads; it loads again
\* only after a connection refusal with attempts remaining; any other
\* WebDriverException is propagated at once; it returns only after a load
\* that ended without a connection-refused page, and otherwise raises after
\* the last attempt.
C12_LoadRetriesOnlyRefusals ==
    /\ Len(ld_log) <= ld_attempts
    /\ \A i \in 1..(Len(ld_log) - 1) : ld_log[i] \in Refusals
    /\ ld_pc \in {"get", "check"} => ld_result = "none"
    /\ ld_pc = "get" => Len(ld_log) < ld_attempts
    /\ ld_pc = "done" =>
          /\ ld_log # <<>>
          /\ LET last == ld_log[Len(ld_log)] IN
             /\ ld_result = "returned" <=> last = "loaded"
             /\ ld_result = "raised" <=>
                   \/ last = "other_exc"
                   \/ last \in Refusals /\ Len(ld_log) = ld_attempts
    /\ \A i \in 1..Len(ld_log) :
          ld_log[i] = "other_exc" => (i = Len(ld_log) /\ ld_result = "raised")

\* Two refused loads were retried and the third load went through.
C12_Witness ==
    /\ ld_result = "returned"
    /\ Len(ld_log) = 3
    /\ ld_log[1] = "refused_exc"
    /\ ld_log[2] = "refused_page"

\* _sanitize_medium_html applied to one input.
NextSan == SanitizeCall

InitSan ==
    /\ InitPartsIdle /\ InitLoadIdle /\ InitGpmIdle /\ InitCsvIdle /\ InitCfgIdle /\ InitTxtIdle
    /\ san_pc = "idle"
    /\ san_in \in UNION {[1..n -> InputTokens] : n \in 1..MaxTokens}
    /\ san_out = <<>>

SpecSan == InitSan /\ [][NextSan]_vars

----------------------------------------------------------------------------
(* Claims about _sanitize_medium_html *)

NextGpm ==
    \/ FindOrCreateProfile
    \/ \E ok \in BOOLEAN : CreateProfile(ok)
    \/ StartProfile
    \/ \E ok \in BOOLEAN : StartProfileAttempt(ok)
    \/ StartProfileGiveUp

InitGpm ==
    /\ InitPartsIdle /\ InitLoadIdle /\ InitSanIdle /\ InitCsvIdle /\ InitCfgIdle /\ InitTxtIdle
    /\ g_pc = "step1"
    /\ g_create_arg \in {"default", "True", "False"}
    /\ g_lookup \in {"found", "missing", "error"}
    /\ g_created = "none"
    /\ g_profile = "none"
    /\ g_retry_attempts \in 0..MaxRetryAttempts
    /\ g_dirs \in [arg : BOOLEAN, info : BOOLEAN, config : BOOLEAN]
    /\ g_dir = "none"
    /\ g_log = <<>>
    /\ g_driver = "none"

SpecGpm == InitGpm /\ [][NextGpm]_vars

----------------------------------------------------------------------------
(* Claims about the GPM profile functions *)

\* C14: called with only a profile name, find_or_create_profile creates the
\* profile when the lookup finds none, and returns None only if the creation
\* fails too.
C14_DefaultCreatesMissing ==
    (g_create_arg = "default" /\ g_lookup = "missing" /\ g_profile # "none") =>
        /\ g_created # "none"
        /\ g_profile = "None" <=> g_created = "failed"

\* C15: start_profile makes at most retry_attempts launch attempts, returns the
\* driver of the first attempt that succeeds without launching again, returns
\* None after retry_attempts failures, and returns None without any launch
\* when no user_data_dir can be resolved (argument, then API info, then config).
C15_StartProfileBounded ==
    LET failures == \A i \in 1..(Len(g_log) - 1) : g_log[i] = "failed"
        nodir == ~g_dirs.arg /\ ~g_dirs.info /\ ~g_dirs.config
    IN /\ Len(g_log) <= g_retry_attempts
       /\ failures
       /\ nodir => g_log = <<>>
       /\ g_pc \in {"launch", "summary"} =>
             g_dir = (IF g_dirs.arg THEN "arg" ELSE IF g_dirs.info THEN "info"
                      ELSE IF g_dirs.config THEN "config" ELSE "none")
       /\ g_pc = "launch" => (g_driver = "none" /\ \A i \in 1..Len(g_log) : g_log[i] = "failed")
       /\ g_driver = "driver" => (g_pc = "summary" /\ g_log # <<>> /\ g_log[Len(g_log)] = "ok")
       /\ g_driver = "None" =>
             /\ g_pc = "summary"
             /\ \A i \in 1..Len(g_log) : g_log[i] = "failed"
             /\ nodir \/ Len(g_log) = g_retry_attempts

\* The third launch attempt succeeded after two failures, with the directory
\* taken from the API info.
C15_Witness ==
    /\ g_driver = "driver"
    /\ g_log = <<"failed", "failed", "ok">>
    /\ g_dir = "info"

\* One slot whose workers, one per profile with one job each, write their
\* links to the same CSV schedule.
NextCsv ==
    \/ \E w \in Writers : CsvStartWorker(w)
    \/ \E w \in Writers, published \in BOOLEAN : CsvRunJobAndRead(w, published)
    \/ \E w \in Writers : CsvWrite(w)

InitCsv ==
    /\ InitPartsIdle /\ InitLoadIdle /\ InitSanIdle /\ InitGpmIdle /\ InitCfgIdle /\ InitTxtIdle
    /\ c_limit \in 1..MaxLimit
    /\ c_rows = [w \in Writers |-> 0]
    /\ c_w = [w \in Writers |-> [pc |-> "waiting", url |-> 0, rows |-> c_rows]]

SpecCsv == InitCsv /\ [][NextCsv]_vars

\* C17: when the workers of one slot run concurrently and each writes its
\* published URL into the same CSV schedule, no write is lost: after all
\* workers have finished, every published row holds its own URL.
C17_NoLinkWriteLost ==
    (\A w \in Writers : c_w[w].pc = "dead") =>
        \A w \in Writers : c_w[w].url # 0 => c_rows[w] = c_w[w].url

\* _run_single_job on one schedule job, up to the call of run_job_inline.
NextCfg ==
    \/ CfgBuild
    \/ CfgRunJobInline
    \/ CfgRaise

InitCfg ==
    /\ InitPartsIdle /\ InitLoadIdle /\ InitSanIdle /\ InitGpmIdle /\ InitCsvIdle /\ InitTxtIdle
    /\ cf_pc = "idle"
    /\ cf_job \in ScheduleJobs
    /\ cf_result = NoMedium

SpecCfg == InitCfg /\ [][NextCfg]_vars

\* C19: for a job whose platform is 'medium' in any letter case,
\* to_runner_config returns a RunnerConfig with platform 'Medium' and a
\* MediumJobConfig carrying the job's title, content, profile name ('Default'
\* when empty) and resolved profile path, and _run_single_job hands it to
\* run_job_inline; for another platform it returns a RunnerConfig with that
\* platform and no Medium configuration.
C19_MediumJobGetsMediumConfig ==
    cf_pc # "idle" =>
        IF LowerPlatform(cf_job.platform) = "medium"
        THEN /\ cf_result.kind = "RunnerConfig"
             /\ cf_result.platform = "Medium"
             /\ cf_result.medium.kind = "MediumJobConfig"
             /\ cf_result.medium.args.title = StrOr(cf_job.title, "Untitled")
             /\ cf_result.medium.args.content = cf_job.content
             /\ cf_result.medium.args.profile_path = ResolveProfilePath(cf_job.profile)
             /\ cf_pc # "raised"
        ELSE /\ cf_result.kind = "RunnerConfig"
             /\ cf_result.platform = cf_job.platform
             /\ cf_result.medium = NoMedium

\* One call of fill_title_and_body: the title loop, then _type_body_plain.
NextFill ==
    \/ FillStart
    \/ \E outcome \in TitleOutcomes : TitleAttempt(outcome)
    \/ TitleLoopElse
    \/ TypeBodyPlainStart
    \/ \E found \in BOOLEAN : AcquireBodyElement(found)
    \/ \E richOk \in BOOLEAN, textOk \in BOOLEAN : TypeBodyCopy(richOk, textOk)
    \/ \E ok \in BOOLEAN : TypeBodyPaste(ok)
    \/ FillReturn

InitFill ==
    /\ InitPartsIdle /\ InitFunsIdle /\ InitRenIdle
    /\ ft_pc = "idle"
    /\ ft_log = <<>>
    /\ ft_last_exc = FALSE
    /\ ft_raised = "none"
    /\ tb_text_blob \in {"", "blob"}
    /\ tb_rich_html \in {"", "html"}
    /\ tb_copied = "none"
    /\ tb_copy_ok = [called |-> FALSE, rich |-> FALSE, text |-> FALSE]
    /\ tb_pasted = FALSE
    /\ tb_result = "none"

SpecFill == InitFill /\ [][NextFill]_vars

\* The title attempts that did not type the title.
FailedTitleAttempts == {i \in 1..Len(ft_log) : ft_log[i] # "typed"}

C23_TrueOnlyAfterCopyAndPaste ==
    LET richCopied == tb_copy_ok.called /\ tb_rich_html # "" /\ tb_copy_ok.rich
        textCopied == tb_copy_ok.called /\ tb_text_blob # "" /\ tb_copy_ok.text
    IN /\ tb_copied = "rich" <=> richCopied
       /\ tb_copied = "text" <=> (~richCopied /\ textCopied)
       /\ tb_copied = "none" <=> (~richCopied /\ ~textCopied)
       /\ tb_result = "True" => (tb_copied # "none" /\ tb_pasted)

NextRen == RenderCall

InitRen ==
    /\ InitPartsIdle /\ InitFunsIdle /\ InitFillIdle
    /\ rn_pc = "idle"
    /\ rn_in \in InputLines
    /\ rn_out = <<>>

SpecRen == InitRen /\ [][NextRen]_vars

\* C24: the text blob returned by render_medium_body_text contains no empty
\* line: it never contains two consecutive newline characters, neither starts
\* nor ends with a newline, and no line of it has trailing whitespace.
C24_BlobHasNoEmptyLine ==
    rn_pc = "returned" =>
        /\ \A i \in 1..Len(rn_out) - 1 : ~(rn_out[i] = NL /\ rn_out[i + 1] = NL)
        /\ rn_out # <<>> => (rn_out[1] # NL /\ rn_out[Len(rn_out)] # NL)
        /\ \A i \in 1..Len(rn_out) :
               (i = Len(rn_out) \/ rn_out[i + 1] = NL) => rn_out[i] \notin Whitespace
        /\ \A i \in 1..Len(rn_out) : rn_out[i] # CR

\* Two lines, the first with trailing whitespace, the second beginning with a
\* newline: the blob is the two texts on two lines.
C24_Witness ==
    /\ rn_pc = "returned"
    /\ rn_in = <<<<"a", SP>>, <<NL, "a">>>>
    /\ rn_out = <<"a", NL, "a">>

----------------------------------------------------------------------------
(* Claims about the schedule table *)

\* C10: a schedule row whose link column is not empty never becomes a job, and
\* once _run_single_job has written the published URL into a row with
\* write_link_to_schedule, no later run of main on the same table dispatches
\* that row, or the row of the job that was published, again.
C10_LinkedRowNotDispatchedAgain ==
    /\ l_pc = "running" =>
          \A i \in 1..Len(l_jobs) : NormalizeField(l_jobs[i].cell) = ""
    /\ \A w \in l_written : \A d \in l_dispatched :
          d.run > w.run => d.src \notin {w.row, w.src}

----------------------------------------------------------------------------
(* Claims about the batch scheduler *)

AliveWorkers == {w \in 1..Len(workers) : workers[w].state = "alive"}

\* C1: during a call of _dispatch_time_slot with limit >= 1, the number of
\* profile worker processes alive at the same time never exceeds limit.
C1_AliveWithinLimit == Cardinality(AliveWorkers) <= m_limit

\* limit workers are alive and a further group waits for a free place.
C1_Witness ==
    /\ d_pc = "loop"
    /\ d_gi <= Len(d_groups)
    /\ Cardinality(AliveWorkers) = m_limit

Elems(seq) == {seq[i] : i \in 1..Len(seq)}

\* Two jobs have the same resolved profile path, compared case-insensitively.
SameProfile(j, k) ==
    LowerPath(ResolveProfilePath(m_jobs[j].profile))
        = LowerPath(ResolveProfilePath(m_jobs[k].profile))

Ascending(seq) == \A i, k \in 1..Len(seq) : i < k => seq[i] < seq[k]

IsPrefix(short, long) ==
    /\ Len(short) <= Len(long)
    /\ \A i \in 1..Len(short) : short[i] = long[i]

\* The workers started by the call of _dispatch_time_slot under way.
SlotWorkers == {w \in 1..Len(workers) : workers[w].slot = Len(d_log)}

\* C2: the jobs of a slot are partitioned by resolved profile path compared
\* case-insensitively: every job is in exactly one group, each group is handed
\* to exactly one worker, which runs the group's jobs one after another in
\* schedule order, and no two workers of the slot alive at the same time work on
\* the same profile.
C2_OneWorkerPerProfile ==
    d_pc \in {"loop", "join", "returned"} =>
        /\ \A j \in Elems(d_jobs) :
              Cardinality({g \in 1..Len(d_groups) : j \in Elems(d_groups[g].jobs)}) = 1
        /\ \A g \in 1..Len(d_groups) :
              /\ Elems(d_groups[g].jobs) \subseteq Elems(d_jobs)
              /\ Ascending(d_groups[g].jobs)
              /\ \A j \in Elems(d_groups[g].jobs), k \in Elems(d_jobs) :
                    SameProfile(j, k) <=> k \in Elems(d_groups[g].jobs)
        /\ \A g \in 1..Len(d_groups) :
              Cardinality({w \in SlotWorkers : workers[w].jobs = d_groups[g].jobs})
                  = IF g < d_gi THEN 1 ELSE 0
        /\ \A w \in SlotWorkers : IsPrefix(workers[w].ran, workers[w].jobs)
        /\ \A w, x \in SlotWorkers :
              (w # x /\ workers[w].state = "alive" /\ workers[x].state = "alive") =>
                  \A j \in Elems(workers[w].jobs), k \in Elems(workers[x].jobs) :
                      ~SameProfile(j, k)

\* Two workers of the slot are alive, one of them has run two jobs whose
\* profile columns differ.
C2_Witness ==
    /\ d_pc = "join"
    /\ Cardinality(SlotWorkers \cap AliveWorkers) = 2
    /\ \E w \in SlotWorkers :
          /\ Len(workers[w].ran) = 2
          /\ m_jobs[workers[w].ran[1]].profile # m_jobs[workers[w].ran[2]].profile

\* The entries of d_log of the scheduled slots.
ScheduledCalls == {i \in 1..Len(d_log) : d_log[i].label # NoTime}

\* C3: a job whose target time lies in the future is never dispatched before
\* that time, and the scheduled slots are dispatched in ascending order of
\* their target times.
C3_NotEarlyAndAscending ==
    /\ \A i \in ScheduledCalls : d_log[i].at >= d_log[i].label
    /\ \A i, k \in ScheduledCalls : i < k => d_log[i].label < d_log[k].label
    /\ \A w \in 1..Len(workers) : \A i \in 1..Len(workers[w].ran) :
          LET job == m_jobs[workers[w].ran[i]] IN
          job.target # NoTime => d_log[workers[w].slot].at >= job.target

\* Two scheduled slots were dispatched, the later one standing first in the
\* schedule, and a worker ran the job of the second.
C3_Witness ==
    /\ Cardinality(ScheduledCalls) = 2
    /\ Len(m_jobs) >= 2
    /\ m_jobs[1].target > m_jobs[2].target
    /\ m_jobs[2].target > StartTime
    /\ \E w \in 1..Len(workers) : workers[w].slot = Len(d_log) /\ workers[w].ran # <<>>

\* C16: time slots never overlap: every worker of the immediate slot has
\* terminated before any scheduled slot is registered, and _dispatch_time_slot
\* returns only after every worker it started has terminated, which is before
\* the next slot's dispatch begins.
C16_SlotsNeverOverlap ==
    /\ \A w \in AliveWorkers :
          /\ workers[w].slot = Len(d_log)
          /\ d_pc \in {"loop", "join"}
    /\ m_pc = "register" => AliveWorkers = {}
    /\ s_queue # {} => \A w \in 1..Len(workers) :
          (workers[w].slot >= 1 /\ d_log[workers[w].slot].label = NoTime) =>
              workers[w].state = "dead"
    /\ d_pc \in {"start", "returned"} => AliveWorkers = {}

\* The immediate slot and a scheduled slot were dispatched; a worker of the
\* first has ended and a worker of the second is running.
C16_Witness ==
    /\ Len(d_log) = 2
    /\ d_log[1].label = NoTime
    /\ \E w \in 1..Len(workers) : workers[w].slot = 1 /\ workers[w].state = "dead"
    /\ \E w \in AliveWorkers : workers[w].slot = 2

----------------------------------------------------------------------------
(* Claims about the Medium publish flow *)

\* C4: medium_publish_article_selenium returns a non-empty URL only when a
\* publish confirmation was observed: on every path, the timeout of the wait
\* for the published URL included, the returned URL is never the editor URL
\* (one containing 'new-story').
C4_NeverReturnsEditorUrl ==
    (p_result = "returned" /\ Truthy(p_url)) => ~HasNewStory(p_url)

\* C11: if the publish-quota overlay is detected after the confirm click,
\* medium_publish_article_selenium raises and returns no URL, so no success
\* event is put and no link is written back for the job.
C11_QuotaBlockRaises ==
    p_quota = "detected" =>
        /\ p_pc \in {"done", "events", "end"}
        /\ p_result = "raised"
        /\ p_url = NoUrl
        /\ ~p_success
        /\ ~p_written

\* The overlay was detected after a confirm click and the job's callers are through.
C11_Witness == p_quota = "detected" /\ p_confirms >= 1 /\ p_pc = "end"

\* C20: the publish dialog is opened and the confirm button clicked only after
\* _wait_publish_ready has reported the editor ready; when body typing failed
\* or the readiness wait timed out, no publish click is issued.
C20_ClicksOnlyWhenReady ==
    (p_opened \/ p_confirms >= 1) => (p_ready = "ready" /\ p_body = "typed")

\* C21: when publish_now is False, medium_publish_article_selenium never clicks
\* the publish confirm button: the story is left unpublished.
C21_NoConfirmClickWithoutPublishNow == ~p_publish_now => p_confirms = 0

\* C5: when an attempt of the publish flow fails, the flow is attempted again,
\* up to retries further times, and medium_publish_article_selenium raises only
\* after the last attempt has failed.
C5_RaisesOnlyAfterLastAttempt ==
    p_result = "raised" => p_attempts = p_retries + 1

----------------------------------------------------------------------------
(* Claims about Runner.run and the App *)

FinishedCount(evs) == Cardinality({i \in 1..Len(evs) : evs[i][1] = "finished"})

Returned(r) == runners[r].outcome = "returned"

\* C6: every execution of Runner.run that returned has put exactly one
\* 'finished' event, as its last event: ('finished','Done') when nothing was
\* raised, otherwise the 'error' event 'Failure: ...' and then
\* ('finished','Aborted').
C6_FinishedLast ==
    \A r \in 1..Len(runners) :
        Returned(r) =>
            LET e == runners[r].emitted IN
            /\ Len(e) >= 1
            /\ FinishedCount(e) = 1
            /\ e[Len(e)][1] = "finished"
            /\ IF runners[r].exc = ""
               THEN e[Len(e)] = EvFinishedDone
               ELSE /\ Len(e) >= 2
                    /\ e[Len(e)] = EvFinishedAborted
                    /\ e[Len(e) - 1] = EvFailure(runners[r].exc)

\* One run returned without an exception and another after one.
C6_Witness ==
    /\ \E r \in 1..Len(runners) : Returned(r) /\ runners[r].exc = ""
    /\ \E r \in 1..Len(runners) : Returned(r) /\ runners[r].exc # ""

IsMediumJob(r) == runners[r].cfg.platform = "Medium" /\ runners[r].cfg.medium

SuccessBeforeFinished(e) ==
    \E i \in 1..Len(e) :
        /\ e[i] = EvSuccessUrl
        /\ \A j \in 1..Len(e) : e[j][1] = "finished" => i < j

\* C7: Runner.run with platform 'Medium' and a Medium configuration executes
\* the Medium publish workflow, and when the workflow returned a URL the event
\* ('success', 'Medium URL: <url>') is put before 'finished'.
C7_MediumRunsWorkflow ==
    \A r \in 1..Len(runners) :
        (IsMediumJob(r) /\ runners[r].pc # "run") =>
            /\ runners[r].workflow
            /\ (Returned(r) /\ runners[r].url) => SuccessBeforeFinished(runners[r].emitted)

\* C8: Runner.run with a platform other than 'Medium' never launches a browser
\* or a publish workflow, and what it emits is one 'warn' event followed by
\* ('finished','Done').
C8_OtherPlatformOnlyWarns ==
    \A r \in 1..Len(runners) :
        runners[r].cfg.platform # "Medium" =>
            /\ ~runners[r].launched
            /\ ~runners[r].workflow
            /\ runners[r].pc \notin {"except", "put_error", "put_aborted", "raised"}
            /\ Returned(r) =>
                  /\ Len(runners[r].emitted) = 2
                  /\ runners[r].emitted[1][1] = "warn"
                  /\ runners[r].emitted[2] = EvFinishedDone

\* A LinkedIn run and a run of an unknown platform have both returned.
C8_Witness ==
    /\ \E r \in 1..Len(runners) : Returned(r) /\ runners[r].cfg.platform = "LinkedIn"
    /\ \E r \in 1..Len(runners) :
           Returned(r) /\ runners[r].cfg.platform \notin {"Medium", "LinkedIn"}

AliveRunners == {r \in 1..Len(runners) : IsAlive(r)}

\* C9: at most one Runner thread is alive at any time, under every interleaving
\* of start_run, stop_run and _poll_queue.
C9_AtMostOneRunnerAlive == Cardinality(AliveRunners) <= 1

\* C18: a failing job terminates without operator interaction: Runner.run,
\* called by run_job_inline in the worker, never waits for console input
\* after the job has raised.
C18_FailingJobNeverWaitsForInput ==
    \A r \in 1..Len(runners) : ~runners[r].thread => runners[r].pc # "except"

====
